---- MODULE Spec2Model ----
(***************************************************************************)
(* RTOS abstraction layer of Oryx-Embedded/Common: the CMX-RTX, SafeRTOS,  *)
(* PX5 and Zephyr ports (os_port_cmx_rtx.c, os_port_safertos.c,            *)
(* os_port_px5.c, os_port_zephyr.c).                                       *)
(*                                                                         *)
(* The ports are modelled call by call.  Every kernel call a port function *)
(* makes is one atomic step; a port function that makes several kernel     *)
(* calls (the drain loops of osWaitForEvent and osResetEvent) is several   *)
(* steps, between which other tasks and interrupt handlers may run.  The   *)
(* kernels themselves are outside the repository: their semaphores and     *)
(* mutexes are modelled by the K_* operators below.                        *)
(***************************************************************************)
EXTENDS Integers, Sequences, FiniteSets, TLC

----------------------------------------------------------------------------
\* Bounds of the model

\* Size of the identifier table.  The header sets 64 and lets the integrator
\* choose any value in 1..255; the model checks a small table.
OS_MAX_SEMAPHORES == 3

\* Post calls on a semaphore without a kernel limit are explored up to this count
MaxCount == 3

\* osCreateSemaphore is called with a count in 1..MaxCap
MaxCap == 2

\* The finite, nonzero timeout (in milliseconds) the tasks wait with
FiniteDelay == 10

\* The kernel has room for this many tasks
MaxTasks == 2

\* Address and size (in words) of the stack buffer a caller supplies, and
\* address of the control block
StackAddr == 16

StackSize == 4

TcbAddr == 32

\* osSuspendAllTasks is nested up to this depth by one caller
MaxNest == 2

\* The tick period, in milliseconds, of a build that defines OS_MS_TO_SYSTICKS
\* and OS_SYSTICKS_TO_MS for a kernel tick longer than one millisecond
TickMs == 20

\* the kernel's timer ticks at most this many times in a run
MaxTicks == 3

\* the sets counted during one osResetEvent call
MaxSets == 2

\* SafeRTOS: portQUEUE_OVERHEAD_BYTES is a constant of the kernel's port layer;
\* every value from 1 up to MaxOverhead is examined
MaxOverhead == 6

\* the low 16 bits of the buffer addresses examined lie within AddrWindow of 0
\* and of 65536
AddrWindow == 8

----------------------------------------------------------------------------
\* Program constants

OS_INVALID_SEMAPHORE_ID == 255

OS_INVALID_TASK_ID == 0

OS_SELF_TASK_ID == 0

\* the null pointer
NULL == 0

\* Counters are held as 16-bit limbs, lowest first: a systime_t (uint32_t) is
\* two limbs, the kernel's count of ticks since the start three
Limb == 65536

\* os_port.h: ((uint_t) -1), the all-ones value; only ever compared for equality
INFINITE_DELAY == -1

Backends == {"cmx_rtx", "safertos", "px5", "zephyr"}

Tasks == {"t1", "t2"}

NoTask == "none"

Timeouts == {0, FiniteDelay, INFINITE_DELAY}

Ids == 0 .. (OS_MAX_SEMAPHORES - 1)

\* the kernel's task slots; a task's handle is its slot
Slots == 1 .. MaxTasks

\* the values passed as arg to osCreateTask
Args == {"a1", "a2"}

----------------------------------------------------------------------------
VARIABLES
  backend,         \* the port selected at build time
  kind,            \* the object the tasks operate on: "alloc", "event", "semaphore", "mutex"
  semaphoreTable,  \* CMX-RTX: static bool_t semaphoreTable[OS_MAX_SEMAPHORES]
  ksem,            \* the kernel's semaphores, by handle
  kmutex,          \* the kernel's mutex (PX5, Zephyr)
  event,           \* the OsEvent object
  semaphore,       \* the OsSemaphore object
  mutex,           \* the OsMutex object
  pc,              \* where each task is inside a port function
  loc,             \* each task's current (or last) call: operation, timeout, result
  recent,          \* history: the last calls that ran alone, oldest first
  nSets,           \* history: osSetEvent calls since osCreateEvent (2 = two or more)
  clean,           \* history: a set/release was issued with no call in progress and no wait or reset began since
  owed,            \* history: a set/release was issued and no wait or reset began since
  semTest,         \* history: position in the sequence create, c releases, c+1 waits
  holding,         \* history: tasks between a returned osAcquireMutex and their osReleaseMutex
  misuse,          \* history: osReleaseMutex was called by a task that did not hold the mutex
  nAcq,            \* history: osAcquireMutex calls since osCreateMutex (2 = two or more)
  lastCall,        \* history: the last allocator call, with the table before it
  prevCall,        \* history: the allocator call before lastCall
  streak,          \* history: ids returned by the allocate calls made in a row since osInitKernel
  taskIds,         \* the port header's OS_INVALID_TASK_ID and OS_SELF_TASK_ID
  ktask,           \* the kernel's tasks, by slot
  tcall,           \* history: the last osCreateTask / osDeleteTask call and the kernel calls it made
  sched,           \* the kernel's scheduler: started, lock depth, task holding the lock
  memCall,         \* each caller's position in osAllocMem / osFreeMem and its history
  tickMs,          \* the build's tick period in milliseconds (OS_MS_TO_SYSTICKS, OS_SYSTICKS_TO_MS)
  obs,             \* history: what an observer of the calls has seen (returns, kernel calls)
  scn,             \* where the main task and task A are in the start-up scenario
  clk,             \* the kernel's tick / uptime counter and the last readings of osGetSystemTime
  irq,             \* the interrupt-enable state and each task's position inside the identifier allocator
  place            \* SafeRTOS: the address of the object's buffer and the pointer handed to the kernel

kernelVars == <<ksem, kmutex, pc, loc>>
objVars == <<event, semaphore, mutex>>
syncHist == <<recent, nSets, clean, owed, semTest, holding, misuse, nAcq>>
allocHist == <<lastCall, prevCall, streak>>
sysVars == <<taskIds, ktask, tcall, sched, memCall>>
syncVars == <<semaphoreTable, kernelVars, objVars, syncHist, allocHist>>
extVars == <<tickMs, obs, scn, clk, irq, place>>
vars == <<backend, kind, semaphoreTable, ksem, kmutex, event, semaphore, mutex,
          pc, loc, recent, nSets, clean, owed, semTest, holding, misuse, nAcq,
          lastCall, prevCall, streak, taskIds, ktask, tcall, sched, memCall,
          tickMs, obs, scn, clk, irq, place>>

----------------------------------------------------------------------------
\* Identifier allocator (CMX-RTX)

\* The for loop of osAllocateSemaphoreId: i, id and the table after the loop
RECURSIVE AllocLoop_NoMark(_, _, _)
AllocLoop_NoMark(table, i, id) ==
  IF i < OS_MAX_SEMAPHORES /\ id = OS_INVALID_SEMAPHORE_ID
  THEN IF table[i] = FALSE
       THEN AllocLoop_NoMark(table, i + 1, i % 256)
       ELSE AllocLoop_NoMark(table, i + 1, id)
  ELSE [table |-> table, id |-> id]

RECURSIVE AllocLoop_NoStop(_, _, _)
AllocLoop_NoStop(table, i, id) ==
  IF i < OS_MAX_SEMAPHORES
  THEN IF table[i] = FALSE
       THEN AllocLoop_NoStop([table EXCEPT ![i] = TRUE], i + 1, i % 256)
       ELSE AllocLoop_NoStop(table, i + 1, id)
  ELSE [table |-> table, id |-> id]

RECURSIVE AllocLoop(_, _, _)
AllocLoop(table, i, id) ==
  IF i < OS_MAX_SEMAPHORES /\ id = OS_INVALID_SEMAPHORE_ID
  THEN IF table[i] = FALSE
       THEN AllocLoop([table EXCEPT ![i] = TRUE], i + 1, i % 256)
       ELSE AllocLoop(table, i + 1, id)
  ELSE [table |-> table, id |-> id]

\* osAllocateSemaphoreId, between __disable_irq and __enable_irq
AllocateSemaphoreId(table) == AllocLoop(table, 0, OS_INVALID_SEMAPHORE_ID)

FreeSemaphoreId_Keep(table, id) == table

\* osFreeSemaphoreId
FreeSemaphoreId(table, id) ==
  IF id < OS_MAX_SEMAPHORES THEN [table EXCEPT ![id] = FALSE] ELSE table

ClearedTable == [i \in Ids |-> FALSE]

NoCall == [op |-> "none", arg |-> 0, ret |-> 0, before |-> ClearedTable]

\* the ids osFreeSemaphoreId is called with: every slot, the first id past the
\* table, and the invalid id
FreeArgs == Ids \cup {OS_MAX_SEMAPHORES, OS_INVALID_SEMAPHORE_ID}

osInitKernel ==
  /\ kind = "alloc"
  /\ lastCall.op # "init"
  /\ semaphoreTable' = ClearedTable
  /\ lastCall' = [op |-> "init", arg |-> 0, ret |-> 0, before |-> semaphoreTable]
  /\ prevCall' = lastCall
  /\ streak' = [on |-> TRUE, ids |-> <<>>]
  /\ UNCHANGED <<backend, kind, sysVars, kernelVars, objVars, syncHist>>

osAllocateSemaphoreId ==
  /\ backend = "cmx_rtx"
  /\ \/ kind = "alloc"
     \/ kind = "event" /\ event.state = "none"
     \/ kind = "semaphore" /\ semaphore.state = "none"
     \/ kind = "mutex" /\ mutex.state = "none"
  /\ LET r == AllocateSemaphoreId(semaphoreTable) IN
       /\ semaphoreTable' = r.table
       /\ lastCall' = [op |-> "alloc", arg |-> 0, ret |-> r.id, before |-> semaphoreTable]
       /\ prevCall' = lastCall
       /\ streak' = IF streak.on /\ Len(streak.ids) <= OS_MAX_SEMAPHORES
                    THEN [streak EXCEPT !.ids = Append(@, r.id)]
                    ELSE streak
  /\ UNCHANGED <<backend, kind, sysVars, kernelVars, objVars, syncHist>>

osFreeSemaphoreId(id) ==
  /\ kind = "alloc"
  /\ semaphoreTable' = FreeSemaphoreId(semaphoreTable, id)
  /\ lastCall' = [op |-> "free", arg |-> id, ret |-> 0, before |-> semaphoreTable]
  /\ prevCall' = lastCall
  /\ streak' = [on |-> FALSE, ids |-> <<>>]
  /\ UNCHANGED <<backend, kind, sysVars, kernelVars, objVars, syncHist>>

----------------------------------------------------------------------------
\* The allocator, statement by statement, under preemption

\* a task that has not called the allocator: the function it is in (or was
\* last in), its position, the locals i and id (id is the return value once it
\* has returned), the argument of osFreeSemaphoreId, the interrupt-enable
\* state at the call and at the return, whether the call disabled the
\* interrupts and whether it wrote to the table
NoIrqCall ==
  [op |-> "none", pc |-> "idle", i |-> 0, id |-> OS_INVALID_SEMAPHORE_ID, arg |-> 0,
   entry |-> TRUE, exit |-> TRUE, entered |-> FALSE, wrote |-> FALSE]

\* interrupts enabled, no task inside the allocator; out counts, per identifier,
\* the allocate calls that returned it since it was last marked free
NoIrq ==
  [enabled |-> TRUE, running |-> NoTask, call |-> [t \in Tasks |-> NoIrqCall],
   out |-> [i \in Ids |-> 0]]

disable_irq_Nop(s) == s

\* __disable_irq(), __enable_irq(): set the interrupt-enable state, whatever
\* it was
disable_irq(s) == [s EXCEPT !.enabled = FALSE]

enable_irq(s) == [s EXCEPT !.enabled = TRUE]

FreeInRange_Any(id) == TRUE

\* osFreeSemaphoreId: if(id < OS_MAX_SEMAPHORES)
FreeInRange(id) == id < OS_MAX_SEMAPHORES

\* Task t executes its next statement: it is the running task, or interrupts
\* are enabled and the kernel's tick handler switches to it.
Runs(t) == irq.enabled \/ irq.running = t

\* the allocator state after task t took a step that leaves its call as c
IrqStep(s, t, c) == [s EXCEPT !.running = t, !.call[t] = c]

irqFrame ==
  <<backend, kind, sysVars, kernelVars, objVars, syncHist, allocHist, tickMs, obs, scn, clk, place>>

\* a task brackets code of its own with __disable_irq() / __enable_irq()
Task_DisableIrq(t) ==
  /\ kind = "alloc"
  /\ Runs(t)
  /\ irq.call[t].pc = "idle"
  /\ irq.enabled
  /\ irq' = IrqStep(disable_irq(irq), t, irq.call[t])
  /\ UNCHANGED <<semaphoreTable, irqFrame>>

Task_EnableIrq(t) ==
  /\ kind = "alloc"
  /\ Runs(t)
  /\ irq.call[t].pc = "idle"
  /\ ~irq.enabled
  /\ irq' = IrqStep(enable_irq(irq), t, irq.call[t])
  /\ UNCHANGED <<semaphoreTable, irqFrame>>

\* osAllocateSemaphoreId: id = OS_INVALID_SEMAPHORE_ID
Alloc_Call(t) ==
  /\ kind = "alloc"
  /\ Runs(t)
  /\ irq.call[t].pc = "idle"
  /\ irq' = IrqStep(irq, t, [NoIrqCall EXCEPT !.op = "alloc", !.pc = "disable",
                                              !.entry = irq.enabled])
  /\ UNCHANGED <<semaphoreTable, irqFrame>>

\* __disable_irq(), in either function; i = 0 in osAllocateSemaphoreId
Irq_Disable(t) ==
  /\ Runs(t)
  /\ irq.call[t].pc = "disable"
  /\ irq' = IrqStep(disable_irq(irq), t,
                    [irq.call[t] EXCEPT !.pc = IF irq.call[t].op = "alloc" THEN "test" ELSE "clear",
                                        !.entered = TRUE])
  /\ UNCHANGED <<semaphoreTable, irqFrame>>

\* the loop condition and if(semaphoreTable[i] == FALSE)
Alloc_Test(t) ==
  /\ Runs(t)
  /\ irq.call[t].pc = "test"
  /\ LET c == irq.call[t] IN
       irq' = IrqStep(irq, t,
                IF c.i < OS_MAX_SEMAPHORES /\ c.id = OS_INVALID_SEMAPHORE_ID
                THEN IF semaphoreTable[c.i] = FALSE
                     THEN [c EXCEPT !.pc = "mark"]
                     ELSE [c EXCEPT !.i = @ + 1]
                ELSE [c EXCEPT !.pc = "enable"])
  /\ UNCHANGED <<semaphoreTable, irqFrame>>

\* semaphoreTable[i] = TRUE; id = (uint8_t) i; i++
Alloc_Mark(t) ==
  /\ Runs(t)
  /\ irq.call[t].pc = "mark"
  /\ LET c == irq.call[t] IN
       /\ semaphoreTable' = [semaphoreTable EXCEPT ![c.i] = TRUE]
       /\ irq' = [IrqStep(irq, t, [c EXCEPT !.pc = "test", !.id = c.i % 256, !.i = @ + 1,
                                            !.wrote = TRUE])
                   EXCEPT !.out = [i \in Ids |->
                                     IF i = c.i /\ irq.out[i] < 2
                                     THEN irq.out[i] + 1 ELSE irq.out[i]]]
  /\ UNCHANGED irqFrame

\* osFreeSemaphoreId(id): the range check; an id outside the table returns at once
Free_Call(t, id) ==
  /\ kind = "alloc"
  /\ Runs(t)
  /\ irq.call[t].pc = "idle"
  /\ irq' = IrqStep(irq, t,
                    [NoIrqCall EXCEPT !.op = "free", !.arg = id, !.entry = irq.enabled,
                                      !.exit = irq.enabled,
                                      !.pc = IF FreeInRange(id) THEN "disable" ELSE "idle"])
  /\ UNCHANGED <<semaphoreTable, irqFrame>>

\* semaphoreTable[id] = FALSE
Free_Clear(t) ==
  /\ Runs(t)
  /\ irq.call[t].pc = "clear"
  /\ LET c == irq.call[t] IN
       /\ semaphoreTable' = [i \in Ids |-> IF i = c.arg THEN FALSE ELSE semaphoreTable[i]]
       /\ irq' = [IrqStep(irq, t, [c EXCEPT !.pc = "enable", !.wrote = TRUE])
                   EXCEPT !.out = [i \in Ids |-> IF i = c.arg THEN 0 ELSE irq.out[i]]]
  /\ UNCHANGED irqFrame

\* __enable_irq(), in either function
Irq_Enable(t) ==
  /\ Runs(t)
  /\ irq.call[t].pc = "enable"
  /\ irq' = IrqStep(enable_irq(irq), t, [irq.call[t] EXCEPT !.pc = "return"])
  /\ UNCHANGED <<semaphoreTable, irqFrame>>

\* return id (osAllocateSemaphoreId), return (osFreeSemaphoreId)
Irq_Return(t) ==
  /\ Runs(t)
  /\ irq.call[t].pc = "return"
  /\ irq' = IrqStep(irq, t, [irq.call[t] EXCEPT !.pc = "idle", !.i = 0, !.exit = irq.enabled])
  /\ UNCHANGED <<semaphoreTable, irqFrame>>

----------------------------------------------------------------------------
\* The kernels' semaphores and mutexes, as the ports use them

\* the control block a port object names: the CMX-RTX semaphore number held in
\* the object, or (other ports) the one control block of the object itself
HandleOf(o) == IF backend = "cmx_rtx" THEN o.id ELSE 0

\* a control block no create call has set up
NoSem == [created |-> FALSE, count |-> 0, bounded |-> FALSE, limit |-> 0]

\* K_Semaphore_Create(id, n): a counting semaphore holding n tokens
K_Semaphore_Create(n) ==
  [created |-> TRUE, count |-> n, bounded |-> FALSE, limit |-> 0]

\* xSemaphoreCreateBinary: a semaphore of at most one token; whether it starts
\* full or empty is the kernel's choice
xSemaphoreCreateBinary(avail) ==
  [created |-> TRUE, count |-> IF avail THEN 1 ELSE 0, bounded |-> TRUE, limit |-> 1]

\* xSemaphoreCreateCounting(uxMaxCount, uxInitialCount, ...)
xSemaphoreCreateCounting(max, initial) ==
  [created |-> TRUE, count |-> initial, bounded |-> TRUE, limit |-> max]

\* px5_sem_init(sem, pshared, value): a POSIX semaphore with the initial value
px5_sem_init(value) ==
  [created |-> TRUE, count |-> value, bounded |-> FALSE, limit |-> 0]

\* k_sem_init(sem, initial_count, limit)
k_sem_init(initial, limit) ==
  [created |-> TRUE, count |-> initial, bounded |-> TRUE, limit |-> limit]

TryTake_All(s) == [s EXCEPT !.count = 0]

TryTake_Keep(s) == s

\* a non-blocking take on a semaphore value: K_Semaphore_Get, xSemaphoreTake(h, 0),
\* px5_sem_trywait, k_sem_take(K_NO_WAIT)
TryTake(s) == IF s.count > 0 THEN [s EXCEPT !.count = @ - 1] ELSE s

\* a post on a semaphore nobody waits on: K_Semaphore_Post, xSemaphoreGive,
\* px5_sem_post, k_sem_give
Give(s) == IF s.bounded /\ s.count >= s.limit THEN s ELSE [s EXCEPT !.count = @ + 1]

CanTake(h) == ksem[h].created /\ ksem[h].count > 0

\* The kernels that resume a waiting task from inside the post call.  SafeRTOS
\* (a queue) stores the token and the waiting task takes it when it next runs.
HandsOff == backend # "safertos"

DrainLoop_None == FALSE

\* the ports whose event is a counting semaphore without a limit
DrainLoop == backend \in {"cmx_rtx", "px5"}

AllIdle == \A t \in Tasks : pc[t] = "idle"

Blocked == {t \in Tasks : pc[t] = "blocked"}

WakeChoices_None == {NoTask}

\* the task a post resumes: any waiting task (the kernel's queueing order is
\* not the port's), or none
WakeChoices == IF HandsOff /\ Blocked # {} THEN Blocked ELSE {NoTask}

\* milliseconds to kernel ticks: (n) unless the build defines the macro for its
\* tick period
OS_MS_TO_SYSTICKS(n) == n \div tickMs

portMAX_DELAY == INFINITE_DELAY

\* K_Semaphore_Wait(id, ticks): a tick count of 0 waits without a timeout
K_Semaphore_Wait(ticks) == IF ticks = 0 THEN "forever" ELSE "timed"

\* xSemaphoreTake(handle, ticks)
xSemaphoreTake(ticks) ==
  IF ticks = portMAX_DELAY THEN "forever" ELSE IF ticks = 0 THEN "poll" ELSE "timed"

----------------------------------------------------------------------------
\* Observer, scenario and clock: initial values
NoReset == [on |-> FALSE, n |-> 0, m |-> 0, tries |-> 0]

\* no call observed yet; of an observed call: its return value, whether the
\* kernel made a waiting task ready, whether the event was left signaled, and
\* the number of polls made in a row since the semaphore was created; of each
\* task's osResetEvent call: whether it is in progress, the tokens the event
\* held when it was called, the sets issued during the call, and the gets made
NoObs == [op |-> "none", ret |-> FALSE, woke |-> FALSE, signaled |-> FALSE, n |-> 0,
          reset |-> [t \in Tasks |-> NoReset]]

\* the scenario program has not started: positions of main() and of task A, the
\* handle of task A, whether main() waited on an object not yet created, and
\* what its first wait returned
NoScn == [main |-> "off", a |-> "off", slot |-> 0, early |-> FALSE, first |-> FALSE]

\* the kernel's ticks since the start, the results of the last two calls of
\* osGetSystemTime (last, and prev before it), the number of calls made (2: two
\* or more) and the number of timer ticks taken
NoClk == [ticks |-> <<0, 0, 0>>, prev |-> <<0, 0>>, last |-> <<0, 0>>, reads |-> 0,
          steps |-> 0]

\* no object placed: portQUEUE_OVERHEAD_BYTES, the address of the object's
\* buffer, the pointer handed to the kernel and the function that computed it
NoPlace == [q |-> 1, b |-> <<0, 0>>, p |-> <<0, 0>>, op |-> "none"]

----------------------------------------------------------------------------
\* History and per-call bookkeeping

Push(r, e) == LET s == Append(r, e) IN IF Len(s) > 3 THEN Tail(s) ELSE s

Entry(op, timeout, ret) == [op |-> op, timeout |-> timeout, ret |-> ret]

\* task t enters a port function; a call that starts while another one is in
\* progress, or that another call starts during, did not run alone
Begin(t, op, timeout, mode) ==
  [u \in Tasks |->
     IF u = t
     THEN [op |-> op, timeout |-> timeout, mode |-> mode, ret |-> FALSE,
           solo |-> AllIdle,
           mustSee |-> (op \in {"wait", "semwait"}) /\ clean,
           owedAtCall |-> (op \in {"wait", "semwait"}) /\ owed,
           noSet |-> TRUE]
     ELSE [loc[u] EXCEPT !.solo = FALSE]]

BeginRecent == IF AllIdle THEN recent ELSE <<>>

\* a set or release was issued
Disturb(l) == [u \in Tasks |-> [l[u] EXCEPT !.noSet = FALSE, !.solo = FALSE]]

\* the call of t has returned val (the fields no formula reads afterwards are cleared)
Done(l, t, val) ==
  [l EXCEPT ![t].ret = val, ![t].timeout = 0, ![t].mode = "none", ![t].solo = FALSE]

SemOff == [phase |-> "off", nRel |-> 0, nWait |-> 0, ret |-> FALSE]

\* create(c), c releases, then waits: the n-th wait returned val
SemTestWait(st, val) ==
  IF st.phase = "rel" /\ st.nRel = semaphore.count
  THEN [st EXCEPT !.phase = "wait", !.nWait = 1, !.ret = val]
  ELSE IF st.phase = "wait" /\ st.nWait <= semaphore.count
       THEN [st EXCEPT !.nWait = @ + 1, !.ret = val]
       ELSE SemOff

SemTestRelease(st) ==
  IF AllIdle /\ st.phase = "rel" /\ st.nRel < semaphore.count
  THEN [st EXCEPT !.nRel = @ + 1]
  ELSE SemOff

\* task t returns val from the port function it is in (l, r: loc and recent so far)
Return(l, r, t, val) ==
  /\ pc' = [pc EXCEPT ![t] = "idle"]
  /\ loc' = Done(l, t, val)
  /\ recent' = IF l[t].solo THEN Push(r, Entry(l[t].op, l[t].timeout, val)) ELSE <<>>
  /\ semTest' = IF l[t].op # "semwait" THEN semTest
                ELSE IF l[t].solo THEN SemTestWait(semTest, val) ELSE SemOff
  /\ holding' = IF l[t].op = "acquire" THEN holding \cup {t} ELSE holding

\* task t stays inside the port function, at newpc
Stay(l, r, t, newpc) ==
  /\ pc' = [pc EXCEPT ![t] = newpc]
  /\ loc' = l
  /\ recent' = r
  /\ UNCHANGED <<semTest, holding>>

\* A post on semaphore h that resumes task w (or, w = NoTask, stores the token).
\* The resumed task's kernel wait returns success: an event wait of a drain-loop
\* port goes on to its loop, every other call returns to its caller.
PostStep(h, w) ==
  IF w = NoTask
  THEN /\ ksem[h].bounded \/ ksem[h].count < MaxCount
       /\ ksem' = [ksem EXCEPT ![h] = Give(@)]
       /\ pc' = pc
       /\ loc' = Disturb(loc)
  ELSE /\ ksem' = ksem
       /\ IF DrainLoop /\ loc[w].op = "wait"
          THEN /\ pc' = [pc EXCEPT ![w] = "drain"]
               /\ loc' = Disturb(loc)
          ELSE /\ pc' = [pc EXCEPT ![w] = "idle"]
               /\ loc' = Done(Disturb(loc), w, TRUE)

\* the timeout of a timed kernel wait elapses: the wait fails and the port
\* function returns FALSE
KernelTimeout(t) ==
  /\ pc[t] = "blocked"
  /\ loc[t].mode = "timed"
  /\ Return(loc, recent, t, FALSE)
  /\ UNCHANGED <<backend, kind, sysVars, semaphoreTable, ksem, kmutex, objVars,
                 nSets, clean, owed, misuse, nAcq, allocHist>>

\* SafeRTOS: a waiting task runs again and finds a token
KernelResume(t) ==
  /\ backend = "safertos"
  /\ pc[t] = "blocked"
  /\ CanTake(0)
  /\ ksem' = [ksem EXCEPT ![0] = TryTake(@)]
  /\ Return(loc, recent, t, TRUE)
  /\ UNCHANGED <<backend, kind, sysVars, semaphoreTable, kmutex, objVars,
                 nSets, clean, owed, misuse, nAcq, allocHist>>

----------------------------------------------------------------------------
\* Events

\* the kernel call osWaitForEvent / osWaitForSemaphore makes for a timeout:
\* "poll" does not block, "timed" blocks until the timeout, "forever" has none
WaitMode_CmxRtx(timeout) ==
  IF timeout = 0 THEN "poll"
  ELSE IF timeout = INFINITE_DELAY THEN K_Semaphore_Wait(0)
  ELSE K_Semaphore_Wait(OS_MS_TO_SYSTICKS(timeout))

WaitMode_SafeRtos(timeout) ==
  IF timeout = INFINITE_DELAY THEN xSemaphoreTake(portMAX_DELAY)
  ELSE xSemaphoreTake(OS_MS_TO_SYSTICKS(timeout))

WaitMode_Px5(timeout) ==
  IF timeout = 0 THEN "poll"
  ELSE IF timeout = INFINITE_DELAY THEN "forever"
  ELSE "timed"

WaitMode_Zephyr(timeout) ==
  IF timeout = 0 THEN "poll"
  ELSE IF timeout = INFINITE_DELAY THEN "forever"
  ELSE "timed"

WaitMode(timeout) ==
  CASE backend = "cmx_rtx" -> WaitMode_CmxRtx(timeout)
    [] backend = "safertos" -> WaitMode_SafeRtos(timeout)
    [] backend = "px5" -> WaitMode_Px5(timeout)
    [] backend = "zephyr" -> WaitMode_Zephyr(timeout)

\* the kernel semaphore osCreateEvent leaves behind when the kernel call succeeds
CreateEvent_CmxRtx == K_Semaphore_Create(0)

CreateEvent_SafeRtos_NoTake(avail) == xSemaphoreCreateBinary(avail)

CreateEvent_SafeRtos(avail) == TryTake(xSemaphoreCreateBinary(avail))

CreateEvent_Px5 == px5_sem_init(0)

CreateEvent_Zephyr_Signaled == k_sem_init(1, 1)

CreateEvent_Zephyr == k_sem_init(0, 1)

CreateEvent(avail) ==
  CASE backend = "cmx_rtx" -> CreateEvent_CmxRtx
    [] backend = "safertos" -> CreateEvent_SafeRtos(avail)
    [] backend = "px5" -> CreateEvent_Px5
    [] backend = "zephyr" -> CreateEvent_Zephyr

CreateId_First == [table |-> semaphoreTable, id |-> 0]

\* The identifier step of the CMX-RTX create functions.  The other ports keep
\* the control block in the object and need no identifier.
CreateId ==
  IF backend = "cmx_rtx"
  THEN AllocateSemaphoreId(semaphoreTable)
  ELSE [table |-> semaphoreTable, id |-> 0]

\* osCreateEvent; ok is the status of the kernel's create call
osCreateEvent ==
  /\ kind = "event"
  /\ event.state = "none"
  /\ \E ok \in BOOLEAN, avail \in BOOLEAN :
       LET r == CreateId
           done == r.id # OS_INVALID_SEMAPHORE_ID /\ ok
       IN /\ avail \/ backend = "safertos"
          /\ semaphoreTable' = r.table
          /\ event' = [state |-> IF done THEN "created" ELSE "failed", id |-> r.id]
          /\ ksem' = IF done THEN [ksem EXCEPT ![r.id] = CreateEvent(avail)] ELSE ksem
  /\ UNCHANGED <<backend, kind, sysVars, kmutex, semaphore, mutex, pc, loc, syncHist, allocHist>>

\* the kernel post of osSetEvent and osSetEventFromIsr
SetEvent(w) == PostStep(HandleOf(event), w)

SetHist(op) ==
  /\ recent' = IF AllIdle THEN Push(recent, Entry(op, 0, FALSE)) ELSE <<>>
  /\ nSets' = IF nSets < 2 THEN nSets + 1 ELSE nSets
  /\ clean' = AllIdle
  /\ owed' = TRUE

\* osSetEvent, called by a task that is in no other call
osSetEvent ==
  /\ kind = "event"
  /\ event.state = "created"
  /\ \E t \in Tasks : pc[t] = "idle"
  /\ \E w \in WakeChoices : SetEvent(w)
  /\ SetHist("set")
  /\ UNCHANGED <<backend, kind, sysVars, semaphoreTable, kmutex, objVars,
                 semTest, holding, misuse, nAcq, allocHist>>

\* a port whose ISR variant is left as a stub that only returns FALSE
osSetEventFromIsr_Stub ==
  /\ kind = "event"
  /\ event.state = "created"
  /\ SetHist("setIsr")
  /\ UNCHANGED <<backend, kind, sysVars, semaphoreTable, ksem, kmutex, objVars, pc, loc,
                 semTest, holding, misuse, nAcq, allocHist>>

\* osSetEventFromIsr, from an interrupt handler: at any point of the tasks' calls
osSetEventFromIsr ==
  /\ kind = "event"
  /\ event.state = "created"
  /\ \E w \in WakeChoices : SetEvent(w)
  /\ SetHist("setIsr")
  /\ UNCHANGED <<backend, kind, sysVars, semaphoreTable, kmutex, objVars,
                 semTest, holding, misuse, nAcq, allocHist>>

SetEventFromIsr_Return_Woken(woke, flag) ==
  IF backend = "safertos" THEN flag ELSE woke

\* the return value of osSetEventFromIsr: FALSE on CMX-RTX, PX5 and Zephyr;
\* SafeRTOS returns the flag that xSemaphoreGiveFromISR was given
SetEventFromIsr_Return(woke, flag) ==
  IF backend = "safertos" THEN flag ELSE FALSE

\* osSetEventFromIsr with its return value.  xSemaphoreGiveFromISR leaves the
\* flag (initially FALSE) alone unless the give made a waiting task ready, and
\* then sets it when that task's priority is above the interrupted task's.
osSetEventFromIsr_Observed ==
  /\ osSetEventFromIsr
  /\ LET h == HandleOf(event)
         woken == {t \in Tasks : pc[t] = "blocked" /\ pc'[t] # "blocked"}
         ready == backend = "safertos" /\ Blocked # {} /\ ksem'[h] # ksem[h]
     IN \E flag \in (IF ready THEN BOOLEAN ELSE {FALSE}) :
          obs' = [NoObs EXCEPT !.op = "setIsr",
                               !.ret = SetEventFromIsr_Return(woken # {}, flag),
                               !.woke = (woken # {} \/ ready),
                               !.signaled = (woken # {} \/ ksem'[h].count > 0)]
  /\ UNCHANGED <<tickMs, scn, clk, irq, place>>

\* One non-blocking get of the loop of osResetEvent (CMX-RTX, PX5); SafeRTOS
\* takes once; Zephyr's k_sem_reset empties the semaphore.
ResetGet_Once(t, l, r) ==
  /\ ksem' = [ksem EXCEPT ![HandleOf(event)] = TryTake(@)]
  /\ Return(l, r, t, FALSE)

ResetGet(t, l, r) ==
  IF DrainLoop
  THEN IF CanTake(HandleOf(event))
       THEN /\ ksem' = [ksem EXCEPT ![HandleOf(event)] = TryTake(@)]
            /\ Stay(l, r, t, "reset")
       ELSE /\ ksem' = ksem
            /\ Return(l, r, t, FALSE)
  ELSE IF backend = "safertos"
       THEN /\ ksem' = [ksem EXCEPT ![HandleOf(event)] = TryTake(@)]
            /\ Return(l, r, t, FALSE)
       ELSE /\ ksem' = [ksem EXCEPT ![HandleOf(event)].count = 0]
            /\ Blocked = {}
            /\ Return(l, r, t, FALSE)

\* osResetEvent up to and including its first kernel call
osResetEvent_Call(t) ==
  /\ kind = "event"
  /\ event.state = "created"
  /\ pc[t] = "idle"
  /\ ResetGet(t, Begin(t, "reset", 0, "poll"), BeginRecent)
  /\ clean' = FALSE
  /\ owed' = FALSE
  /\ UNCHANGED <<backend, kind, sysVars, semaphoreTable, kmutex, objVars,
                 nSets, misuse, nAcq, allocHist>>

\* a further iteration of the loop of osResetEvent
osResetEvent_Loop(t) ==
  /\ pc[t] = "reset"
  /\ ResetGet(t, loc, recent)
  /\ UNCHANGED <<backend, kind, sysVars, semaphoreTable, kmutex, objVars,
                 nSets, clean, owed, misuse, nAcq, allocHist>>

\* Zephyr: k_sem_reset while tasks wait on the semaphore: their k_sem_take calls
\* fail (-EAGAIN) and their osWaitForEvent calls return FALSE
osResetEvent_Waiters(t) ==
  /\ kind = "event"
  /\ event.state = "created"
  /\ backend = "zephyr"
  /\ pc[t] = "idle"
  /\ Blocked # {}
  /\ ksem' = [ksem EXCEPT ![HandleOf(event)].count = 0]
  /\ pc' = [u \in Tasks |-> "idle"]
  /\ loc' = [u \in Tasks |->
               IF u = t
               THEN [Begin(t, "reset", 0, "poll")[t] EXCEPT !.mode = "none", !.solo = FALSE]
               ELSE IF pc[u] = "blocked"
                    THEN [loc[u] EXCEPT !.ret = FALSE, !.timeout = 0, !.mode = "none", !.solo = FALSE]
                    ELSE loc[u]]
  /\ recent' = <<>>
  /\ clean' = FALSE
  /\ owed' = FALSE
  /\ UNCHANGED <<backend, kind, sysVars, semaphoreTable, kmutex, objVars,
                 nSets, semTest, holding, misuse, nAcq, allocHist>>

\* The first kernel call of osWaitForEvent / osWaitForSemaphore on semaphore h:
\* a token is taken, or the call fails at once, or the task blocks.  after is
\* where a successful event wait goes on ("drain") or "idle" when it returns.
WaitCall(t, h, l, r, after) ==
  IF CanTake(h)
  THEN /\ ksem' = [ksem EXCEPT ![h] = TryTake(@)]
       /\ IF after = "idle" THEN Return(l, r, t, TRUE) ELSE Stay(l, r, t, after)
  ELSE /\ ksem' = ksem
       /\ IF l[t].mode = "poll" THEN Return(l, r, t, FALSE) ELSE Stay(l, r, t, "blocked")

\* osWaitForEvent up to and including its first kernel call
osWaitForEvent_Call(t, timeout) ==
  /\ kind = "event"
  /\ event.state = "created"
  /\ pc[t] = "idle"
  /\ WaitCall(t, HandleOf(event), Begin(t, "wait", timeout, WaitMode(timeout)),
              BeginRecent, IF DrainLoop THEN "drain" ELSE "idle")
  /\ clean' = FALSE
  /\ owed' = FALSE
  /\ UNCHANGED <<backend, kind, sysVars, semaphoreTable, kmutex, objVars,
                 nSets, misuse, nAcq, allocHist>>

\* one iteration of the loop that forces the event back to the nonsignaled
\* state (CMX-RTX, PX5); the wait returns TRUE when the get fails
osWaitForEvent_Drain(t) ==
  /\ pc[t] = "drain"
  /\ IF CanTake(HandleOf(event))
     THEN /\ ksem' = [ksem EXCEPT ![HandleOf(event)] = TryTake(@)]
          /\ Stay(loc, recent, t, "drain")
     ELSE /\ ksem' = ksem
          /\ Return(loc, recent, t, TRUE)
  /\ UNCHANGED <<backend, kind, sysVars, semaphoreTable, kmutex, objVars,
                 nSets, clean, owed, misuse, nAcq, allocHist>>

\* a set was issued: every osResetEvent call in progress counts it
CountSet(rs) == [t \in Tasks |-> IF rs[t].on THEN [rs[t] EXCEPT !.m = @ + 1] ELSE rs[t]]

SetsLeft == \A t \in Tasks : obs.reset[t].on => obs.reset[t].m < MaxSets

\* osSetEvent and osSetEventFromIsr, counted by the osResetEvent calls in progress
osSetEvent_Counted ==
  /\ SetsLeft
  /\ osSetEvent
  /\ obs' = [obs EXCEPT !.reset = CountSet(@)]
  /\ UNCHANGED <<tickMs, scn, clk, irq, place>>

osSetEventFromIsr_Counted ==
  /\ SetsLeft
  /\ osSetEventFromIsr
  /\ obs' = [obs EXCEPT !.reset = CountSet(@)]
  /\ UNCHANGED <<tickMs, scn, clk, irq, place>>

\* osResetEvent up to its first K_Semaphore_Get / px5_sem_trywait, counted
osResetEvent_Counted(t) ==
  /\ osResetEvent_Call(t)
  /\ obs' = [obs EXCEPT !.reset[t] = [on |-> pc'[t] = "reset",
                                       n |-> ksem[HandleOf(event)].count,
                                       m |-> 0, tries |-> 1]]
  /\ UNCHANGED <<tickMs, scn, clk, irq, place>>

\* a further get of the loop, counted
osResetEvent_Again(t) ==
  /\ osResetEvent_Loop(t)
  /\ obs' = [obs EXCEPT !.reset[t].on = (pc'[t] = "reset"), !.reset[t].tries = @ + 1]
  /\ UNCHANGED <<tickMs, scn, clk, irq, place>>

\* a task is in a kernel wait that has no timeout
WaitsForever == \E t \in Tasks : pc[t] = "blocked" /\ loc[t].timeout = INFINITE_DELAY

\* the one osSetEvent or osSetEventFromIsr call of the program, noting whether
\* it found a task in osWaitForEvent(event, INFINITE_DELAY)
osSetEvent_Once ==
  /\ obs.op = "none"
  /\ osSetEvent
  /\ obs' = [NoObs EXCEPT !.op = "set", !.woke = WaitsForever]
  /\ UNCHANGED <<tickMs, scn, clk, irq, place>>

osSetEventFromIsr_Once ==
  /\ obs.op = "none"
  /\ osSetEventFromIsr
  /\ obs' = [NoObs EXCEPT !.op = "set", !.woke = WaitsForever]
  /\ UNCHANGED <<tickMs, scn, clk, irq, place>>

\* osWaitForEvent called while no other task is in a call; the first call made
\* after the set ends the observation
osWaitForEvent_Alone(t, timeout) ==
  /\ AllIdle
  /\ osWaitForEvent_Call(t, timeout)
  /\ obs' = IF obs.op = "set" THEN [obs EXCEPT !.op = "after", !.woke = FALSE] ELSE obs
  /\ UNCHANGED <<tickMs, scn, clk, irq, place>>

\* the waiting task runs: the next get of its loop (CMX-RTX, PX5), or its take
\* of the token that made it ready (SafeRTOS)
WaiterRuns ==
  /\ \E t \in Tasks : osWaitForEvent_Drain(t) \/ KernelResume(t)
  /\ UNCHANGED extVars

----------------------------------------------------------------------------
\* Semaphores

\* the kernel semaphore osCreateSemaphore(semaphore, count) leaves behind
CreateSemaphore_CmxRtx(count) == K_Semaphore_Create(count)

CreateSemaphore_SafeRtos(count) == xSemaphoreCreateCounting(count, count)

CreateSemaphore_Px5(count) == px5_sem_init(count)

CreateSemaphore_Zephyr_Empty(count) == k_sem_init(0, count)

CreateSemaphore_Zephyr(count) == k_sem_init(count, count)

CreateSemaphore(count) ==
  CASE backend = "cmx_rtx" -> CreateSemaphore_CmxRtx(count)
    [] backend = "safertos" -> CreateSemaphore_SafeRtos(count)
    [] backend = "px5" -> CreateSemaphore_Px5(count)
    [] backend = "zephyr" -> CreateSemaphore_Zephyr(count)

\* osCreateSemaphore(semaphore, count); ok is the status of the kernel's create call
osCreateSemaphore(count) ==
  /\ kind = "semaphore"
  /\ semaphore.state = "none"
  /\ \E ok \in BOOLEAN :
       LET r == CreateId
           done == r.id # OS_INVALID_SEMAPHORE_ID /\ ok
       IN /\ semaphoreTable' = r.table
          /\ semaphore' = [state |-> IF done THEN "created" ELSE "failed",
                           id |-> r.id, count |-> count]
          /\ ksem' = IF done THEN [ksem EXCEPT ![r.id] = CreateSemaphore(count)] ELSE ksem
          /\ semTest' = IF done THEN [SemOff EXCEPT !.phase = "rel"] ELSE SemOff
  /\ UNCHANGED <<backend, kind, sysVars, kmutex, event, mutex, pc, loc,
                 recent, nSets, clean, owed, holding, misuse, nAcq, allocHist>>

\* osReleaseSemaphore, called by a task that is in no other call
osReleaseSemaphore ==
  /\ kind = "semaphore"
  /\ semaphore.state = "created"
  /\ \E t \in Tasks : pc[t] = "idle"
  /\ \E w \in WakeChoices : PostStep(HandleOf(semaphore), w)
  /\ SetHist("release")
  /\ semTest' = SemTestRelease(semTest)
  /\ UNCHANGED <<backend, kind, sysVars, semaphoreTable, kmutex, objVars,
                 holding, misuse, nAcq, allocHist>>

\* osWaitForSemaphore: its one kernel call
osWaitForSemaphore_Call(t, timeout) ==
  /\ kind = "semaphore"
  /\ semaphore.state = "created"
  /\ pc[t] = "idle"
  /\ WaitCall(t, HandleOf(semaphore), Begin(t, "semwait", timeout, WaitMode(timeout)),
              BeginRecent, "idle")
  /\ clean' = FALSE
  /\ owed' = FALSE
  /\ UNCHANGED <<backend, kind, sysVars, semaphoreTable, kmutex, objVars,
                 nSets, misuse, nAcq, allocHist>>

\* osCreateSemaphore, starting the count of the polls that follow it
osCreateSemaphore_Observed(count) ==
  /\ osCreateSemaphore(count)
  /\ obs' = IF semaphore'.state = "created" THEN [NoObs EXCEPT !.op = "create"] ELSE NoObs
  /\ UNCHANGED <<tickMs, scn, clk, irq, place>>

\* osWaitForSemaphore(semaphore, 0) with its return value; the polls made in a
\* row after the create call are counted up to the one after the capacity
osWaitForSemaphore_Poll(t) ==
  /\ osWaitForSemaphore_Call(t, 0)
  /\ obs' = IF obs.op \in {"create", "poll"} /\ obs.n <= semaphore.count
            THEN [obs EXCEPT !.op = "poll", !.ret = loc'[t].ret, !.n = @ + 1]
            ELSE NoObs
  /\ UNCHANGED <<tickMs, scn, clk, irq, place>>

----------------------------------------------------------------------------
\* Mutexes

\* the ports whose mutex is a kernel semaphore (the others use a kernel mutex)
SemaphoreMutex == backend \in {"cmx_rtx", "safertos"}

CreateMutex_CmxRtx_NoPost(posted) == K_Semaphore_Create(0)

\* CMX-RTX osCreateMutex: K_Semaphore_Create(id, 0), then K_Semaphore_Post,
\* whose status is posted
CreateMutex_CmxRtx(posted) ==
  IF posted THEN Give(K_Semaphore_Create(0)) ELSE K_Semaphore_Create(0)

\* SafeRTOS osCreateMutex: xSemaphoreCreateBinary, then xSemaphoreGive
CreateMutex_SafeRtos(avail) == Give(xSemaphoreCreateBinary(avail))

\* px5_pthread_mutex_init(mutex, NULL), k_mutex_init(mutex)
CreateMutex_Kernel == [created |-> TRUE, owner |-> NoTask]

\* osCreateMutex; ok and posted are the statuses of the kernel calls
osCreateMutex ==
  /\ kind = "mutex"
  /\ mutex.state = "none"
  /\ \E ok \in BOOLEAN, posted \in BOOLEAN, avail \in BOOLEAN :
       LET r == CreateId
           made == r.id # OS_INVALID_SEMAPHORE_ID /\ ok
           done == made /\ (backend = "cmx_rtx" => posted)
       IN /\ avail \/ backend = "safertos"
          /\ posted \/ backend = "cmx_rtx"
          /\ posted \/ made
          /\ semaphoreTable' = r.table
          /\ mutex' = [state |-> IF done THEN "created" ELSE "failed", id |-> r.id]
          /\ ksem' = IF made /\ SemaphoreMutex
                     THEN [ksem EXCEPT ![r.id] = IF backend = "cmx_rtx"
                                                 THEN CreateMutex_CmxRtx(posted)
                                                 ELSE CreateMutex_SafeRtos(avail)]
                     ELSE ksem
          /\ kmutex' = IF made /\ ~SemaphoreMutex THEN CreateMutex_Kernel ELSE kmutex
  /\ UNCHANGED <<backend, kind, sysVars, event, semaphore, pc, loc, syncHist, allocHist>>

AcquireMode_SafeRtos_NoWait == xSemaphoreTake(0)

\* the kernel call of osAcquireMutex
AcquireMode_CmxRtx == K_Semaphore_Wait(0)

AcquireMode_SafeRtos == xSemaphoreTake(portMAX_DELAY)

AcquireMode ==
  CASE backend = "cmx_rtx" -> AcquireMode_CmxRtx
    [] backend = "safertos" -> AcquireMode_SafeRtos
    [] OTHER -> "forever"

\* a lock call that gives up when the mutex is owned
MutexLock_Try(t, l, r) ==
  /\ kmutex' = IF kmutex.owner = NoTask THEN [kmutex EXCEPT !.owner = t] ELSE kmutex
  /\ Return(l, r, t, kmutex.owner = NoTask)

\* px5_pthread_mutex_lock, k_mutex_lock(K_FOREVER) by a task that does not own
\* the mutex
MutexLock(t, l, r) ==
  IF kmutex.owner = NoTask
  THEN /\ kmutex' = [kmutex EXCEPT !.owner = t]
       /\ Return(l, r, t, TRUE)
  ELSE /\ kmutex' = kmutex
       /\ Stay(l, r, t, "blocked")

\* osAcquireMutex, by a task that does not hold the mutex.  The function
\* returns nothing: its caller holds the mutex from the moment it returns.
osAcquireMutex_Call(t) ==
  /\ kind = "mutex"
  /\ mutex.state = "created"
  /\ pc[t] = "idle"
  /\ t \notin holding
  /\ IF SemaphoreMutex
     THEN /\ WaitCall(t, HandleOf(mutex), Begin(t, "acquire", 0, AcquireMode),
                      BeginRecent, "idle")
          /\ kmutex' = kmutex
     ELSE /\ MutexLock(t, Begin(t, "acquire", 0, AcquireMode), BeginRecent)
          /\ ksem' = ksem
  /\ nAcq' = IF nAcq < 2 THEN nAcq + 1 ELSE nAcq
  /\ UNCHANGED <<backend, kind, sysVars, semaphoreTable, objVars,
                 nSets, clean, owed, misuse, allocHist>>

\* px5_pthread_mutex_unlock, k_mutex_unlock by task t, resuming the waiting task
\* w (NoTask when none waits).  By a task that does not own the mutex,
\* k_mutex_unlock fails and changes nothing; what px5_pthread_mutex_unlock does
\* then is not defined (force: it unlocks all the same).
MutexUnlock(t, w, force) ==
  IF kmutex.owner = t \/ (force /\ kmutex.owner # NoTask)
  THEN /\ w \in (IF Blocked # {} THEN Blocked ELSE {NoTask})
       /\ kmutex' = [kmutex EXCEPT !.owner = w]
       /\ pc' = [u \in Tasks |-> IF u = w THEN "idle" ELSE pc[u]]
       /\ loc' = IF w = NoTask THEN loc ELSE Done(loc, w, TRUE)
  ELSE /\ w = NoTask
       /\ UNCHANGED <<kmutex, pc, loc>>

\* osReleaseMutex, called by a task that is in no other call; a task the kernel
\* call resumes returns from its osAcquireMutex
osReleaseMutex(t) ==
  /\ kind = "mutex"
  /\ mutex.state = "created"
  /\ pc[t] = "idle"
  /\ \E w \in Tasks \cup {NoTask}, force \in BOOLEAN :
       /\ force => (backend = "px5" /\ kmutex.owner \notin {t, NoTask})
       /\ IF SemaphoreMutex
          THEN /\ w \in WakeChoices
               /\ PostStep(HandleOf(mutex), w)
               /\ kmutex' = kmutex
          ELSE /\ MutexUnlock(t, w, force)
               /\ ksem' = ksem
       /\ holding' = (holding \ {t}) \cup (IF w = NoTask THEN {} ELSE {w})
  /\ misuse' = (misuse \/ t \notin holding)
  /\ recent' = <<>>
  /\ UNCHANGED <<backend, kind, sysVars, semaphoreTable, objVars,
                 nSets, clean, owed, semTest, nAcq, allocHist>>

----------------------------------------------------------------------------
\* Deleting objects

DeleteId_Keep(id) == semaphoreTable

\* the identifier step of the CMX-RTX delete functions: osFreeSemaphoreId(id)
DeleteId(id) ==
  IF backend = "cmx_rtx" THEN FreeSemaphoreId(semaphoreTable, id) ELSE semaphoreTable

\* the kernel semaphores after the delete call of an event or a semaphore: PX5
\* destroys the semaphore (px5_sem_destroy), the other ports make no kernel call
DeleteSemaphore_Kernel(h) ==
  IF backend = "px5" THEN [ksem EXCEPT ![h] = NoSem] ELSE ksem

\* osDeleteEvent, on an object osCreateEvent was called for, with no task
\* inside a call
osDeleteEvent ==
  /\ kind = "event"
  /\ event.state \in {"created", "failed"}
  /\ AllIdle
  /\ semaphoreTable' = DeleteId(event.id)
  /\ ksem' = IF event.state = "created" THEN DeleteSemaphore_Kernel(HandleOf(event)) ELSE ksem
  /\ event' = [event EXCEPT !.state = "none"]
  /\ UNCHANGED <<backend, kind, sysVars, kmutex, semaphore, mutex, pc, loc, syncHist, allocHist>>

\* osDeleteSemaphore
osDeleteSemaphore ==
  /\ kind = "semaphore"
  /\ semaphore.state \in {"created", "failed"}
  /\ AllIdle
  /\ semaphoreTable' = DeleteId(semaphore.id)
  /\ ksem' = IF semaphore.state = "created"
             THEN DeleteSemaphore_Kernel(HandleOf(semaphore)) ELSE ksem
  /\ semaphore' = [semaphore EXCEPT !.state = "none"]
  /\ semTest' = SemOff
  /\ UNCHANGED <<backend, kind, sysVars, kmutex, event, mutex, pc, loc,
                 recent, nSets, clean, owed, holding, misuse, nAcq, allocHist>>

\* osDeleteMutex: PX5 destroys the mutex (px5_pthread_mutex_destroy)
osDeleteMutex ==
  /\ kind = "mutex"
  /\ mutex.state \in {"created", "failed"}
  /\ AllIdle
  /\ semaphoreTable' = DeleteId(mutex.id)
  /\ kmutex' = IF backend = "px5" THEN [created |-> FALSE, owner |-> NoTask] ELSE kmutex
  /\ mutex' = [mutex EXCEPT !.state = "none"]
  /\ UNCHANGED <<backend, kind, sysVars, ksem, event, semaphore, pc, loc, syncHist, allocHist>>

----------------------------------------------------------------------------
\* System time

\* the counter one tick later
TickInc(c) ==
  IF c[1] + 1 < Limb THEN <<c[1] + 1, c[2], c[3]>>
  ELSE IF c[2] + 1 < Limb THEN <<0, c[2] + 1, c[3]>>
  ELSE <<0, 0, (c[3] + 1) % Limb>>

\* (systime_t) c: the conversion to uint32_t keeps the low 32 bits
ToSystime(c) == <<c[1], c[2]>>

\* OS_SYSTICKS_TO_MS(n) on a systime_t: (n) by default, n times the tick
\* period in a build that defines it, in 32-bit arithmetic
OS_SYSTICKS_TO_MS(n) ==
  LET lo == n[1] * tickMs
      hi == n[2] * tickMs + lo \div Limb
  IN <<lo % Limb, hi % Limb>>

\* the value osGetSystemTime returns when the kernel's counter is c: Zephyr
\* casts the 64-bit k_uptime_get(), the other ports store the tick count in a
\* systime_t and convert it
GetSystemTime(c) ==
  IF backend = "zephyr" THEN ToSystime(c) ELSE OS_SYSTICKS_TO_MS(ToSystime(c))

\* a <= b for two systime_t values
SystimeLeq(a, b) == a[2] < b[2] \/ (a[2] = b[2] /\ a[1] <= b[1])

\* the kernel's timer interrupt
KernelTick ==
  /\ kind = "clock"
  /\ clk.steps < MaxTicks
  /\ clk' = [clk EXCEPT !.ticks = TickInc(@), !.steps = @ + 1]
  /\ UNCHANGED <<backend, kind, sysVars, syncVars, tickMs, obs, scn, irq, place>>

\* osGetSystemTime, the calls made one after the other
osGetSystemTime ==
  /\ kind = "clock"
  /\ clk' = [clk EXCEPT !.prev = clk.last, !.last = GetSystemTime(clk.ticks),
                        !.reads = IF @ < 2 THEN @ + 1 ELSE @]
  /\ UNCHANGED <<backend, kind, sysVars, syncVars, tickMs, obs, scn, irq, place>>

----------------------------------------------------------------------------
\* Tasks

\* a task the kernel has not created
NoThread == [state |-> "free", entry |-> "none", arg |-> "none",
             tcb |-> NULL, stack |-> NULL, dynamic |-> FALSE]

\* a kernel call as the port makes it: function, task handle, entry point,
\* argument, control block and stack address passed ("none", NULL: not passed)
Call(fn, handle, entry, arg, tcb, stack) ==
  [fn |-> fn, handle |-> handle, entry |-> entry, arg |-> arg, tcb |-> tcb,
   stack |-> stack]

\* the slot (handle) the kernel gives the next task; 0 when it has none left
FreeSlot(k) ==
  IF \E i \in Slots : k[i].state = "free"
  THEN CHOOSE i \in Slots : k[i].state = "free" /\ \A j \in Slots : k[j].state = "free" => i <= j
  ELSE 0

\* the OsTaskParameters a port's structure can hold: CMX-RTX has fp and stack,
\* PX5 has stack, SafeRTOS and Zephyr have tcb and stack
TaskParams ==
  {q \in [fp : {"NULL", "fp"}, tcb : {NULL, TcbAddr}, stack : {NULL, StackAddr},
          stackSize : {StackSize}] :
     /\ q.fp = "NULL" \/ backend = "cmx_rtx"
     /\ q.tcb = NULL \/ backend \in {"safertos", "zephyr"}}

\* the statuses of the kernel calls of osCreateTask; the status of a call that
\* osCreateTask does not reach is left TRUE
KernelStatus ==
  {st \in [create : BOOLEAN, start : BOOLEAN, init : BOOLEAN, addr : BOOLEAN,
           size : BOOLEAN, prio : BOOLEAN] :
     /\ st.start \/ (backend = "cmx_rtx" /\ st.create)
     /\ (st.init /\ st.addr /\ st.size /\ st.prio) \/ backend = "px5"
     /\ st.init \/ (st.addr /\ st.size /\ st.prio)
     /\ st.addr \/ (st.size /\ st.prio)
     /\ st.size \/ st.prio}

\* the statuses when the kernel has resources for the call
KernelOk(st) == st.create /\ st.start /\ st.init /\ st.addr /\ st.size /\ st.prio

CreateTask_CmxRtx_NoCheck(k, taskCode, arg, q, st, g) ==
  LET code == IF q.fp # "NULL" THEN q.fp ELSE taskCode
      slot == FreeSlot(k)
      created == st.create /\ slot # 0
  IN [ret |-> IF created THEN slot ELSE OS_INVALID_TASK_ID,
      calls |-> <<Call("K_Task_Create", 0, code, "none", NULL, NULL),
                  Call("K_Task_Start", slot, "none", "none", NULL, NULL)>>,
      ktask |-> IF created
                THEN [k EXCEPT ![slot] = [state |-> IF st.start THEN "started" ELSE "created",
                                          entry |-> code, arg |-> g, tcb |-> NULL,
                                          stack |-> q.stack, dynamic |-> q.stack = NULL]]
                ELSE k]

\* CMX-RTX osCreateTask.  The kernel's entry point type (CMX_FP) takes no
\* argument and arg is not passed on: the entry function, declared with one
\* parameter, finds whatever value g is in its place.
CreateTask_CmxRtx(k, taskCode, arg, q, st, g) ==
  LET code == IF q.fp # "NULL" THEN q.fp ELSE taskCode
      slot == FreeSlot(k)
      created == st.create /\ slot # 0
      create == IF q.stack # NULL
                THEN Call("K_Task_Create_Stack", 0, code, "none", NULL,
                          q.stack + q.stackSize - 1)
                ELSE Call("K_Task_Create", 0, code, "none", NULL, NULL)
      start == Call("K_Task_Start", slot, "none", "none", NULL, NULL)
  IN [ret |-> IF created /\ st.start THEN slot ELSE OS_INVALID_TASK_ID,
      calls |-> IF created THEN <<create, start>> ELSE <<create>>,
      ktask |-> IF created
                THEN [k EXCEPT ![slot] = [state |-> IF st.start THEN "started" ELSE "created",
                                          entry |-> code, arg |-> g, tcb |-> NULL,
                                          stack |-> create.stack,
                                          dynamic |-> q.stack = NULL]]
                ELSE k]

\* the kernel creates a task that is eligible to run at once, with the entry
\* point, argument and storage of the create call c
KernelCreate(k, slot, c) ==
  [k EXCEPT ![slot] = [state |-> "started", entry |-> c.entry, arg |-> c.arg,
                       tcb |-> c.tcb, stack |-> c.stack, dynamic |-> c.stack = NULL]]

CreateTask_SafeRtos_Either(k, taskCode, arg, q, st) ==
  LET slot == FreeSlot(k)
      created == st.create /\ slot # 0
      create == Call("xTaskCreate", 0, taskCode, arg, q.tcb, q.stack)
  IN IF q.tcb # NULL \/ q.stack # NULL
     THEN [ret |-> IF created THEN slot ELSE NULL,
           calls |-> <<create>>,
           ktask |-> IF created THEN KernelCreate(k, slot, create) ELSE k]
     ELSE [ret |-> NULL, calls |-> <<>>, ktask |-> k]

\* SafeRTOS osCreateTask
CreateTask_SafeRtos(k, taskCode, arg, q, st) ==
  LET slot == FreeSlot(k)
      created == st.create /\ slot # 0
      create == Call("xTaskCreate", 0, taskCode, arg, q.tcb, q.stack)
  IN IF q.tcb # NULL /\ q.stack # NULL
     THEN [ret |-> IF created THEN slot ELSE NULL,
           calls |-> <<create>>,
           ktask |-> IF created THEN KernelCreate(k, slot, create) ELSE k]
     ELSE [ret |-> NULL, calls |-> <<>>, ktask |-> k]

\* PX5 osCreateTask: the attribute calls stop at the first failure, and
\* px5_pthread_create is called whatever their status
CreateTask_Px5(k, taskCode, arg, q, st) ==
  LET slot == FreeSlot(k)
      created == st.create /\ slot # 0
      ret1 == st.init
      setAddr == ret1 /\ q.stack # NULL
      ret2 == IF setAddr THEN st.addr ELSE ret1
      ret3 == IF ret2 THEN st.size ELSE ret2
      ret4 == IF ret3 THEN st.prio ELSE ret3
      stack == IF setAddr /\ st.addr THEN q.stack ELSE NULL
      create == Call("px5_pthread_create", 0, taskCode, arg, NULL, stack)
  IN [ret |-> IF created THEN slot ELSE taskIds.invalid,
      calls |-> <<Call("pthread_attr_init", 0, "none", "none", NULL, NULL)>>
                \o (IF setAddr
                    THEN <<Call("px5_pthread_attr_setstackaddr", 0, "none", "none", NULL, q.stack)>>
                    ELSE <<>>)
                \o (IF ret2
                    THEN <<Call("px5_pthread_attr_setstacksize", 0, "none", "none", NULL, NULL)>>
                    ELSE <<>>)
                \o (IF ret3
                    THEN <<Call("px5_pthread_attr_setpriority", 0, "none", "none", NULL, NULL)>>
                    ELSE <<>>)
                \o <<create>>,
      ktask |-> IF created THEN KernelCreate(k, slot, create) ELSE k]

\* Zephyr osCreateTask
CreateTask_Zephyr(k, taskCode, arg, q, st) ==
  LET slot == FreeSlot(k)
      created == st.create /\ slot # 0
      create == Call("k_thread_create", 0, taskCode, arg, q.tcb, q.stack)
      tid == IF created THEN slot ELSE taskIds.invalid
  IN IF q.tcb # NULL /\ q.stack # NULL
     THEN [ret |-> tid,
           calls |-> IF tid # taskIds.invalid
                     THEN <<create, Call("k_thread_name_set", tid, "none", "none", NULL, NULL)>>
                     ELSE <<create>>,
           ktask |-> IF created THEN KernelCreate(k, slot, create) ELSE k]
     ELSE [ret |-> taskIds.invalid, calls |-> <<>>, ktask |-> k]

CreateTask(k, taskCode, arg, q, st, g) ==
  CASE backend = "cmx_rtx" -> CreateTask_CmxRtx(k, taskCode, arg, q, st, g)
    [] backend = "safertos" -> CreateTask_SafeRtos(k, taskCode, arg, q, st)
    [] backend = "px5" -> CreateTask_Px5(k, taskCode, arg, q, st)
    [] backend = "zephyr" -> CreateTask_Zephyr(k, taskCode, arg, q, st)

\* the kernel calls that end the calling task, and those that delete the task
\* whose handle they are given
ExitCurrent == {"K_Task_End", "px5_pthread_exit"}

GenericDelete == {"K_Task_Delete", "xTaskDelete", "pthread_cancel", "k_thread_abort"}

DeleteTask_CmxRtx_NoSelf(taskId, caller) ==
  <<Call("K_Task_Delete", taskId, "none", "none", NULL, NULL)>>

\* osDeleteTask: the kernel calls it makes.  caller is the handle of the calling
\* context, which k_current_get returns.
DeleteTask_CmxRtx(taskId, caller) ==
  IF taskId = taskIds.self
  THEN <<Call("K_Task_End", 0, "none", "none", NULL, NULL)>>
  ELSE <<Call("K_Task_Delete", taskId, "none", "none", NULL, NULL)>>

DeleteTask_SafeRtos(taskId, caller) ==
  <<Call("xTaskDelete", taskId, "none", "none", NULL, NULL)>>

DeleteTask_Px5(taskId, caller) ==
  IF taskId = taskIds.self
  THEN <<Call("px5_pthread_exit", 0, "none", "none", NULL, NULL)>>
  ELSE <<Call("pthread_cancel", taskId, "none", "none", NULL, NULL)>>

DeleteTask_Zephyr(taskId, caller) ==
  LET tid == IF taskId = taskIds.self THEN caller ELSE taskId
  IN <<Call("k_thread_abort", tid, "none", "none", NULL, NULL)>>

DeleteTask(taskId, caller) ==
  CASE backend = "cmx_rtx" -> DeleteTask_CmxRtx(taskId, caller)
    [] backend = "safertos" -> DeleteTask_SafeRtos(taskId, caller)
    [] backend = "px5" -> DeleteTask_Px5(taskId, caller)
    [] backend = "zephyr" -> DeleteTask_Zephyr(taskId, caller)

\* the task a delete call c made by caller ends: the caller for the exit calls
\* and for xTaskDelete(NULL), the task of the handle otherwise
Target(c, caller) ==
  IF c.fn \in ExitCurrent \/ (c.fn = "xTaskDelete" /\ c.handle = NULL)
  THEN caller
  ELSE c.handle

\* the handle of the context that runs main(): no task made by osCreateTask
MainContext == MaxTasks + 2

NoTaskCall ==
  [op |-> "none", caller |-> MainContext, taskId |-> 0, taskCode |-> "none", arg |-> "none",
   params |-> [fp |-> "NULL", tcb |-> NULL, stack |-> NULL, stackSize |-> StackSize],
   st |-> [create |-> TRUE, start |-> TRUE, init |-> TRUE, addr |-> TRUE,
           size |-> TRUE, prio |-> TRUE],
   room |-> FALSE, ret |-> 0, calls |-> <<>>, callerEnded |-> FALSE,
   afterFailedCreate |-> FALSE]

\* osCreateTask(name, taskCode, arg, params)
osCreateTask(arg, q, st) ==
  /\ kind = "task"
  /\ \E g \in Args :
       LET r == CreateTask(ktask, "taskCode", arg, q, st, g) IN
         /\ g = arg \/ (backend = "cmx_rtx" /\ r.ktask # ktask)
         /\ ktask' = r.ktask
         /\ tcall' = [NoTaskCall EXCEPT !.op = "create", !.taskCode = "taskCode",
                        !.arg = arg, !.params = q, !.st = st,
                        !.room = (FreeSlot(ktask) # 0), !.ret = r.ret,
                        !.calls = r.calls]
  /\ UNCHANGED <<backend, kind, taskIds, sched, memCall, syncVars>>

\* osDeleteTask(taskId), called from the started task in slot caller or from
\* main()
osDeleteTask(caller, taskId) ==
  /\ kind = "task"
  /\ IF caller = MainContext THEN TRUE ELSE ktask[caller].state = "started"
  /\ LET calls == DeleteTask(taskId, caller)
         ended == {Target(calls[i], caller) : i \in 1 .. Len(calls)}
     IN /\ ktask' = [i \in Slots |-> IF i \in ended THEN NoThread ELSE ktask[i]]
        /\ tcall' = [NoTaskCall EXCEPT !.op = "delete", !.caller = caller,
                       !.taskId = taskId, !.calls = calls,
                       !.callerEnded = (caller \in ended),
                       !.afterFailedCreate =
                          (tcall.op = "create" /\ tcall.ret = taskIds.invalid
                             /\ taskId = tcall.ret)]
  /\ UNCHANGED <<backend, kind, taskIds, sched, memCall, syncVars>>

----------------------------------------------------------------------------
\* Scheduler lock and memory management

\* the contexts that call the port: main() before the kernel is started, the
\* tasks afterwards
Callers == Tasks \cup {"main"}

NoSched == [started |-> FALSE, depth |-> 0, owner |-> NoTask]

\* the kernel's scheduler lock (K_Task_Lock, vTaskSuspendScheduler,
\* k_sched_lock): a counter, task switching is off while it is not zero
SchedLock(s, c) == [s EXCEPT !.depth = @ + 1, !.owner = c]

\* K_Task_Unlock, xTaskResumeScheduler, k_sched_unlock
SchedUnlock(s, c) ==
  IF s.depth = 0 THEN s
  ELSE [s EXCEPT !.depth = @ - 1, !.owner = IF s.depth = 1 THEN NoTask ELSE s.owner]

\* osSuspendAllTasks: the scheduler after it and the number of kernel calls made
SuspendAllTasks_CmxRtx(s, c) == [sched |-> SchedLock(s, c), calls |-> 1]

SuspendAllTasks_SafeRtos(s, c) ==
  IF s.started
  THEN [sched |-> SchedLock(s, c), calls |-> 1]
  ELSE [sched |-> s, calls |-> 0]

SuspendAllTasks_Px5(s, c) == [sched |-> s, calls |-> 0]

SuspendAllTasks_Zephyr(s, c) == [sched |-> SchedLock(s, c), calls |-> 1]

SuspendAllTasks(s, c) ==
  CASE backend = "cmx_rtx" -> SuspendAllTasks_CmxRtx(s, c)
    [] backend = "safertos" -> SuspendAllTasks_SafeRtos(s, c)
    [] backend = "px5" -> SuspendAllTasks_Px5(s, c)
    [] backend = "zephyr" -> SuspendAllTasks_Zephyr(s, c)

\* osResumeAllTasks
ResumeAllTasks_CmxRtx(s, c) == [sched |-> SchedUnlock(s, c), calls |-> 1]

ResumeAllTasks_SafeRtos(s, c) ==
  IF s.started
  THEN [sched |-> SchedUnlock(s, c), calls |-> 1]
  ELSE [sched |-> s, calls |-> 0]

ResumeAllTasks_Px5(s, c) == [sched |-> s, calls |-> 0]

ResumeAllTasks_Zephyr(s, c) == [sched |-> SchedUnlock(s, c), calls |-> 1]

ResumeAllTasks(s, c) ==
  CASE backend = "cmx_rtx" -> ResumeAllTasks_CmxRtx(s, c)
    [] backend = "safertos" -> ResumeAllTasks_SafeRtos(s, c)
    [] backend = "px5" -> ResumeAllTasks_Px5(s, c)
    [] backend = "zephyr" -> ResumeAllTasks_Zephyr(s, c)

\* a context runs: main() until the kernel is started, a task once it is
\* started and task switching is not suspended by another context
CanRun(c) ==
  IF c = "main"
  THEN ~sched.started
  ELSE sched.started /\ (sched.depth = 0 \/ sched.owner = c)

NoMemCall ==
  [pc |-> "idle", nest |-> 0, op |-> "none", wasStarted |-> FALSE, kcalls |-> 0,
   changed |-> FALSE, failed |-> FALSE, ret |-> "none", nSuspend |-> 0,
   nResume |-> 0, depthBefore |-> 0, depthAfter |-> 0]

InHeap == {c \in Callers : memCall[c].pc \in {"malloc", "free"}}

\* osStartKernel: K_OS_Start, xTaskStartScheduler; they do not return
osStartKernel ==
  /\ kind = "mem"
  /\ backend \in {"cmx_rtx", "safertos"}
  /\ CanRun("main")
  /\ memCall["main"].pc = "idle"
  /\ sched' = [sched EXCEPT !.started = TRUE]
  /\ UNCHANGED <<backend, kind, taskIds, ktask, tcall, memCall, syncVars>>

osSuspendAllTasks(c) ==
  /\ kind = "mem"
  /\ CanRun(c)
  /\ memCall[c].pc = "idle"
  /\ memCall[c].nest < MaxNest
  /\ LET r == SuspendAllTasks(sched, c) IN
       /\ sched' = r.sched
       /\ memCall' = [memCall EXCEPT ![c] =
            [NoMemCall EXCEPT !.nest = memCall[c].nest + 1, !.op = "suspend",
               !.wasStarted = sched.started, !.kcalls = r.calls,
               !.changed = (r.sched # sched)]]
  /\ UNCHANGED <<backend, kind, taskIds, ktask, tcall, syncVars>>

osResumeAllTasks(c) ==
  /\ kind = "mem"
  /\ CanRun(c)
  /\ memCall[c].pc = "idle"
  /\ memCall[c].nest > 0
  /\ LET r == ResumeAllTasks(sched, c) IN
       /\ sched' = r.sched
       /\ memCall' = [memCall EXCEPT ![c] =
            [NoMemCall EXCEPT !.nest = memCall[c].nest - 1, !.op = "resume",
               !.wasStarted = sched.started, !.kcalls = r.calls,
               !.changed = (r.sched # sched)]]
  /\ UNCHANGED <<backend, kind, taskIds, ktask, tcall, syncVars>>

\* osAllocMem up to the call of the allocator
AllocMem_Enter(c) ==
  IF backend = "safertos"
  THEN [sched |-> sched,
        call |-> [NoMemCall EXCEPT !.nest = memCall[c].nest, !.op = "alloc",
                    !.failed = TRUE, !.ret = "NULL", !.depthBefore = sched.depth,
                    !.depthAfter = sched.depth]]
  ELSE [sched |-> SuspendAllTasks(sched, c).sched,
        call |-> [NoMemCall EXCEPT !.nest = memCall[c].nest, !.op = "alloc",
                    !.pc = "malloc", !.nSuspend = 1, !.depthBefore = sched.depth]]

\* osAllocMem after the allocator returned without resuming on a null pointer
AllocMem_Leave_Early(c, p) ==
  IF p = "NULL"
  THEN [sched |-> sched,
        call |-> [memCall[c] EXCEPT !.pc = "idle", !.failed = TRUE, !.ret = p,
                    !.depthAfter = sched.depth]]
  ELSE [sched |-> ResumeAllTasks(sched, c).sched,
        call |-> [memCall[c] EXCEPT !.pc = "idle", !.ret = p, !.nResume = @ + 1,
                    !.depthAfter = ResumeAllTasks(sched, c).sched.depth]]

\* osAllocMem from the return of the allocator, which gave p
AllocMem_Leave(c, p) ==
  [sched |-> ResumeAllTasks(sched, c).sched,
   call |-> [memCall[c] EXCEPT !.pc = "idle", !.failed = (p = "NULL"), !.ret = p,
               !.nResume = @ + 1,
               !.depthAfter = ResumeAllTasks(sched, c).sched.depth]]

osAllocMem_Call(c) ==
  /\ kind = "mem"
  /\ CanRun(c)
  /\ memCall[c].pc = "idle"
  /\ sched' = AllocMem_Enter(c).sched
  /\ memCall' = [memCall EXCEPT ![c] = AllocMem_Enter(c).call]
  /\ UNCHANGED <<backend, kind, taskIds, ktask, tcall, syncVars>>

osAllocMem_Return(c, p) ==
  /\ kind = "mem"
  /\ CanRun(c)
  /\ memCall[c].pc = "malloc"
  /\ sched' = AllocMem_Leave(c, p).sched
  /\ memCall' = [memCall EXCEPT ![c] = AllocMem_Leave(c, p).call]
  /\ UNCHANGED <<backend, kind, taskIds, ktask, tcall, syncVars>>

\* osFreeMem(p) up to the call of free
osFreeMem_Call(c, p) ==
  /\ kind = "mem"
  /\ CanRun(c)
  /\ memCall[c].pc = "idle"
  /\ IF backend = "safertos" \/ p = "NULL"
     THEN /\ sched' = sched
          /\ memCall' = [memCall EXCEPT ![c] =
               [NoMemCall EXCEPT !.nest = memCall[c].nest, !.op = "free",
                  !.depthBefore = sched.depth, !.depthAfter = sched.depth]]
     ELSE /\ sched' = SuspendAllTasks(sched, c).sched
          /\ memCall' = [memCall EXCEPT ![c] =
               [NoMemCall EXCEPT !.nest = memCall[c].nest, !.op = "free",
                  !.pc = "free", !.nSuspend = 1, !.depthBefore = sched.depth]]
  /\ UNCHANGED <<backend, kind, taskIds, ktask, tcall, syncVars>>

\* osFreeMem from the return of free
osFreeMem_Return(c) ==
  /\ kind = "mem"
  /\ CanRun(c)
  /\ memCall[c].pc = "free"
  /\ sched' = ResumeAllTasks(sched, c).sched
  /\ memCall' = [memCall EXCEPT ![c] =
       [@ EXCEPT !.pc = "idle", !.nResume = @ + 1,
          !.depthAfter = ResumeAllTasks(sched, c).sched.depth]]
  /\ UNCHANGED <<backend, kind, taskIds, ktask, tcall, syncVars>>

----------------------------------------------------------------------------
\* SafeRTOS: where the kernel's control block is placed in the object's buffer

\* v + k in uint32_t arithmetic, v in 16-bit limbs (lowest first), 0 <= k < 65536
Add32(v, k) ==
  LET lo == v[1] + k
  IN <<lo % Limb, (v[2] + lo \div Limb) % Limb>>

\* v % q for a uint32_t v
Mod32(v, q) == ((v[2] % q) * (Limb % q) + (v[1] % q)) % q

\* a < b for two uint32_t values
Lt32(a, b) == a[2] < b[2] \/ (a[2] = b[2] /\ a[1] < b[1])

Placement_Remainder(b, q) == Add32(b, Mod32(b, q))

\* n = p % portQUEUE_OVERHEAD_BYTES; p += portQUEUE_OVERHEAD_BYTES - n
Placement(b, q) ==
  LET n == Mod32(b, q)
  IN Add32(b, q - n)

\* the addresses a buffer of 2 * q bytes can have: the buffer and the address
\* one past its end lie inside the 32-bit address space
BufferAddresses(q) ==
  {b \in (((1 .. AddrWindow) \cup ((Limb - AddrWindow) .. (Limb - 1))) \X {0, 1, Limb - 1}) :
     b[2] = Limb - 1 => b[1] + 2 * q < Limb}

\* the pointer computed at the start of osCreateEvent, osCreateSemaphore and
\* osCreateMutex
Placed(op) == [place EXCEPT !.p = Placement(place.b, place.q), !.op = op]

osCreateEvent_Placed ==
  /\ osCreateEvent
  /\ place' = Placed("osCreateEvent")
  /\ UNCHANGED <<tickMs, obs, scn, clk, irq>>

osCreateSemaphore_Placed(count) ==
  /\ osCreateSemaphore(count)
  /\ place' = Placed("osCreateSemaphore")
  /\ UNCHANGED <<tickMs, obs, scn, clk, irq>>

osCreateMutex_Placed ==
  /\ osCreateMutex
  /\ place' = Placed("osCreateMutex")
  /\ UNCHANGED <<tickMs, obs, scn, clk, irq>>

----------------------------------------------------------------------------
\* Initial states

\* the default tick period, nothing observed, no scenario, clock at zero
InitExt ==
  /\ tickMs = 1
  /\ obs = NoObs
  /\ scn = NoScn
  /\ clk = NoClk
  /\ irq = NoIrq
  /\ place = NoPlace

\* no task created, no task or memory call made, scheduler not started
InitSys ==
  /\ taskIds = [invalid |-> OS_INVALID_TASK_ID, self |-> OS_SELF_TASK_ID]
  /\ ktask = [i \in Slots |-> NoThread]
  /\ tcall = NoTaskCall
  /\ sched = NoSched
  /\ memCall = [c \in Callers |-> NoMemCall]

NoLoc == [op |-> "none", timeout |-> 0, mode |-> "none", ret |-> FALSE,
          solo |-> FALSE, mustSee |-> FALSE, owedAtCall |-> FALSE, noSet |-> FALSE]

\* no object created, no call made
InitObjects ==
  /\ semaphoreTable = ClearedTable
  /\ ksem = [h \in Ids |-> NoSem]
  /\ kmutex = [created |-> FALSE, owner |-> NoTask]
  /\ event = [state |-> "none", id |-> OS_INVALID_SEMAPHORE_ID]
  /\ semaphore = [state |-> "none", id |-> OS_INVALID_SEMAPHORE_ID, count |-> 0]
  /\ mutex = [state |-> "none", id |-> OS_INVALID_SEMAPHORE_ID]
  /\ pc = [t \in Tasks |-> "idle"]
  /\ loc = [t \in Tasks |-> NoLoc]
  /\ recent = <<>>
  /\ nSets = 0
  /\ clean = FALSE
  /\ owed = FALSE
  /\ semTest = [phase |-> "off", nRel |-> 0, nWait |-> 0, ret |-> FALSE]
  /\ holding = {}
  /\ misuse = FALSE
  /\ nAcq = 0
  /\ lastCall = [op |-> "init", arg |-> 0, ret |-> 0, before |-> ClearedTable]
  /\ prevCall = NoCall
  /\ streak = [on |-> TRUE, ids |-> <<>>]

InitCommon ==
  /\ InitSys
  /\ InitObjects
  /\ InitExt

\* the allocator on its own, after osInitKernel
InitAlloc ==
  /\ backend = "cmx_rtx"
  /\ kind = "alloc"
  /\ InitCommon

NextAlloc ==
  \/ osInitKernel /\ UNCHANGED extVars
  \/ osAllocateSemaphoreId /\ UNCHANGED extVars
  \/ \E id \in FreeArgs : osFreeSemaphoreId(id) /\ UNCHANGED extVars

SpecAlloc == InitAlloc /\ [][NextAlloc]_vars

\* tasks and interrupt handlers operating on one event or one semaphore
InitSync ==
  /\ backend \in Backends
  /\ kind \in {"event", "semaphore"}
  /\ InitCommon

NextSync ==
  \/ osAllocateSemaphoreId /\ UNCHANGED extVars
  \/ osCreateEvent /\ UNCHANGED extVars
  \/ osSetEvent /\ UNCHANGED extVars
  \/ osSetEventFromIsr /\ UNCHANGED extVars
  \/ \E t \in Tasks : osResetEvent_Call(t) /\ UNCHANGED extVars
  \/ \E t \in Tasks : osResetEvent_Loop(t) /\ UNCHANGED extVars
  \/ \E t \in Tasks : osResetEvent_Waiters(t) /\ UNCHANGED extVars
  \/ \E t \in Tasks, timeout \in Timeouts : osWaitForEvent_Call(t, timeout) /\ UNCHANGED extVars
  \/ \E t \in Tasks : osWaitForEvent_Drain(t) /\ UNCHANGED extVars
  \/ \E count \in 1 .. MaxCap : osCreateSemaphore(count) /\ UNCHANGED extVars
  \/ osReleaseSemaphore /\ UNCHANGED extVars
  \/ \E t \in Tasks, timeout \in Timeouts : osWaitForSemaphore_Call(t, timeout) /\ UNCHANGED extVars
  \/ \E t \in Tasks : KernelTimeout(t) /\ UNCHANGED extVars
  \/ \E t \in Tasks : KernelResume(t) /\ UNCHANGED extVars

SpecSync == InitSync /\ [][NextSync]_vars

\* tasks taking and releasing one mutex
InitMutex ==
  /\ backend \in Backends
  /\ kind = "mutex"
  /\ InitCommon

NextMutex ==
  \/ osAllocateSemaphoreId /\ UNCHANGED extVars
  \/ osCreateMutex /\ UNCHANGED extVars
  \/ \E t \in Tasks : osAcquireMutex_Call(t) /\ UNCHANGED extVars
  \/ \E t \in Tasks : osReleaseMutex(t) /\ UNCHANGED extVars
  \/ \E t \in Tasks : KernelResume(t) /\ UNCHANGED extVars

SpecMutex == InitMutex /\ [][NextMutex]_vars

\* The two task identifiers of the port header.  os_port_px5.h and
\* os_port_zephyr.h are not among the sources: their failure value is taken to
\* be the null handle the ports' code compares with, and OS_SELF_TASK_ID is
\* either that value or one that is no task's handle.
HeaderTaskIds ==
  CASE backend = "cmx_rtx" ->
         {[invalid |-> OS_INVALID_TASK_ID, self |-> OS_SELF_TASK_ID]}
    [] backend = "safertos" -> {[invalid |-> NULL, self |-> NULL]}
    [] OTHER -> {[invalid |-> NULL, self |-> v] : v \in {NULL, MaxTasks + 1}}

\* creating and deleting tasks
InitTask ==
  /\ backend \in Backends
  /\ kind = "task"
  /\ InitObjects
  /\ taskIds \in HeaderTaskIds
  /\ ktask = [i \in Slots |-> NoThread]
  /\ tcall = NoTaskCall
  /\ sched = NoSched
  /\ memCall = [c \in Callers |-> NoMemCall]
  /\ InitExt

NextTask ==
  \/ \E arg \in Args, q \in TaskParams, st \in KernelStatus : osCreateTask(arg, q, st) /\ UNCHANGED extVars
  \/ \E caller \in Slots \cup {MainContext}, taskId \in 0 .. (MaxTasks + 1) : osDeleteTask(caller, taskId) /\ UNCHANGED extVars

SpecTask == InitTask /\ [][NextTask]_vars

\* the scheduler lock and the heap.  The PX5 and Zephyr schedulers run from
\* osInitKernel on (px5_pthread_start; osStartKernel is empty).
InitMem ==
  /\ backend \in Backends
  /\ kind = "mem"
  /\ InitObjects
  /\ taskIds \in HeaderTaskIds
  /\ ktask = [i \in Slots |-> NoThread]
  /\ tcall = NoTaskCall
  /\ sched = [NoSched EXCEPT !.started = (backend \in {"px5", "zephyr"})]
  /\ memCall = [c \in Callers |-> NoMemCall]
  /\ InitExt

NextMem ==
  \/ osStartKernel /\ UNCHANGED extVars
  \/ \E c \in Callers : osSuspendAllTasks(c) /\ UNCHANGED extVars
  \/ \E c \in Callers : osResumeAllTasks(c) /\ UNCHANGED extVars
  \/ \E c \in Callers : osAllocMem_Call(c) /\ UNCHANGED extVars
  \/ \E c \in Callers, p \in {"NULL", "p"} : osAllocMem_Return(c, p) /\ UNCHANGED extVars
  \/ \E c \in Callers, p \in {"NULL", "p"} : osFreeMem_Call(c, p) /\ UNCHANGED extVars
  \/ \E c \in Callers : osFreeMem_Return(c) /\ UNCHANGED extVars

SpecMem == InitMem /\ [][NextMem]_vars

\* waits with a timeout on one event or one semaphore, in a build with the
\* default tick conversion or with a tick of TickMs milliseconds
InitWait ==
  /\ backend \in Backends
  /\ kind \in {"event", "semaphore"}
  /\ InitSys
  /\ InitObjects
  /\ tickMs \in {1, TickMs}
  /\ obs = NoObs
  /\ scn = NoScn
  /\ clk = NoClk
  /\ irq = NoIrq
  /\ place = NoPlace

NextWait ==
  \/ osCreateEvent /\ UNCHANGED extVars
  \/ osSetEvent /\ UNCHANGED extVars
  \/ \E t \in Tasks, timeout \in Timeouts : osWaitForEvent_Call(t, timeout) /\ UNCHANGED extVars
  \/ \E t \in Tasks : osWaitForEvent_Drain(t) /\ UNCHANGED extVars
  \/ \E count \in 1 .. MaxCap : osCreateSemaphore(count) /\ UNCHANGED extVars
  \/ osReleaseSemaphore /\ UNCHANGED extVars
  \/ \E t \in Tasks, timeout \in Timeouts : osWaitForSemaphore_Call(t, timeout) /\ UNCHANGED extVars
  \/ \E t \in Tasks : KernelTimeout(t) /\ UNCHANGED extVars
  \/ \E t \in Tasks : KernelResume(t) /\ UNCHANGED extVars

SpecWait == InitWait /\ [][NextWait]_vars

\* creating and deleting one object, next to the objects of the rest of the
\* program, which hold identifiers of their own
InitLife ==
  /\ backend \in Backends
  /\ kind \in {"event", "semaphore", "mutex"}
  /\ InitCommon

NextLife ==
  \/ osAllocateSemaphoreId /\ UNCHANGED extVars
  \/ osCreateEvent /\ UNCHANGED extVars
  \/ osDeleteEvent /\ UNCHANGED extVars
  \/ \E count \in 1 .. MaxCap : osCreateSemaphore(count) /\ UNCHANGED extVars
  \/ osDeleteSemaphore /\ UNCHANGED extVars
  \/ osCreateMutex /\ UNCHANGED extVars
  \/ osDeleteMutex /\ UNCHANGED extVars

SpecLife == InitLife /\ [][NextLife]_vars

\* an event of a port whose osResetEvent is a loop, reset by the tasks while
\* tasks and interrupt handlers set it
InitReset ==
  /\ backend \in {"cmx_rtx", "px5"}
  /\ kind = "event"
  /\ InitCommon

NextReset ==
  \/ osCreateEvent /\ UNCHANGED extVars
  \/ osSetEvent_Counted
  \/ osSetEventFromIsr_Counted
  \/ \E t \in Tasks : osResetEvent_Counted(t)
  \/ \E t \in Tasks : osResetEvent_Again(t)

SpecReset == InitReset /\ [][NextReset]_vars

\* one task at a time waits for an event that is set once; the scheduler runs
\* a task that is ready
InitWake ==
  /\ backend \in Backends
  /\ kind = "event"
  /\ InitCommon

NextWake ==
  \/ osCreateEvent /\ UNCHANGED extVars
  \/ osSetEvent_Once
  \/ osSetEventFromIsr_Once
  \/ \E t \in Tasks, timeout \in Timeouts : osWaitForEvent_Alone(t, timeout)
  \/ \E t \in Tasks : KernelTimeout(t) /\ UNCHANGED extVars
  \/ WaiterRuns

SpecWake == InitWake /\ [][NextWake]_vars /\ WF_vars(WaiterRuns)

\* a SafeRTOS object at any of the buffer addresses, about to be created
InitPlace ==
  /\ backend = "safertos"
  /\ kind \in {"event", "semaphore", "mutex"}
  /\ InitSys
  /\ InitObjects
  /\ tickMs = 1
  /\ obs = NoObs
  /\ scn = NoScn
  /\ clk = NoClk
  /\ irq = NoIrq
  /\ place \in UNION {{[NoPlace EXCEPT !.q = q, !.b = b] : b \in BufferAddresses(q)} :
                        q \in 1 .. MaxOverhead}

NextPlace ==
  \/ osCreateEvent_Placed
  \/ \E count \in 1 .. MaxCap : osCreateSemaphore_Placed(count)
  \/ osCreateMutex_Placed

SpecPlace == InitPlace /\ [][NextPlace]_vars

\* two tasks of a CMX-RTX program inside the identifier allocator
InitIrq ==
  /\ backend = "cmx_rtx"
  /\ kind = "alloc"
  /\ InitCommon

NextIrq ==
  \/ \E t \in Tasks : Task_DisableIrq(t)
  \/ \E t \in Tasks : Task_EnableIrq(t)
  \/ \E t \in Tasks : Alloc_Call(t)
  \/ \E t \in Tasks : Irq_Disable(t)
  \/ \E t \in Tasks : Alloc_Test(t)
  \/ \E t \in Tasks : Alloc_Mark(t)
  \/ \E t \in Tasks, id \in FreeArgs : Free_Call(t, id)
  \/ \E t \in Tasks : Free_Clear(t)
  \/ \E t \in Tasks : Irq_Enable(t)
  \/ \E t \in Tasks : Irq_Return(t)

SpecIrq == InitIrq /\ [][NextIrq]_vars

\* a semaphore polled right after its creation; any other call on it ends the
\* count of the polls
InitPoll ==
  /\ backend \in Backends
  /\ kind = "semaphore"
  /\ InitCommon

NextPoll ==
  \/ osAllocateSemaphoreId /\ UNCHANGED extVars
  \/ \E count \in 1 .. MaxCap : osCreateSemaphore_Observed(count)
  \/ \E t \in Tasks : osWaitForSemaphore_Poll(t)
  \/ osReleaseSemaphore /\ obs' = NoObs /\ UNCHANGED <<tickMs, scn, clk, irq, place>>
  \/ \E t \in Tasks :
       osWaitForSemaphore_Call(t, INFINITE_DELAY) /\ obs' = NoObs /\ UNCHANGED <<tickMs, scn, clk, irq, place>>
  \/ \E t \in Tasks : KernelResume(t) /\ UNCHANGED extVars

SpecPoll == InitPoll /\ [][NextPoll]_vars

\* an event set from an interrupt handler while tasks wait on it
InitIsr ==
  /\ backend \in Backends
  /\ kind = "event"
  /\ InitCommon

NextIsr ==
  \/ osCreateEvent /\ UNCHANGED extVars
  \/ osSetEventFromIsr_Observed
  \/ \E t \in Tasks, timeout \in {0, INFINITE_DELAY} :
       osWaitForEvent_Call(t, timeout) /\ UNCHANGED extVars
  \/ \E t \in Tasks : osWaitForEvent_Drain(t) /\ UNCHANGED extVars
  \/ \E t \in Tasks : KernelResume(t) /\ UNCHANGED extVars

SpecIsr == InitIsr /\ [][NextIsr]_vars

\* the values of the kernel's counter the runs start from: the start of the
\* system, and the values at which a limb of the counter is about to carry
StartTicks ==
  {<<a, b, 0>> : a \in {0, Limb - 2, Limb - 1}, b \in {0, Limb - 1}}

\* reading the system time while the kernel's timer ticks, in a build with the
\* default tick conversion
InitClock ==
  /\ backend \in Backends
  /\ kind = "clock"
  /\ InitSys
  /\ InitObjects
  /\ tickMs = 1
  /\ obs = NoObs
  /\ scn = NoScn
  /\ clk \in {[NoClk EXCEPT !.ticks = c] : c \in StartTicks}
  /\ irq = NoIrq
  /\ place = NoPlace

NextClock ==
  \/ KernelTick
  \/ osGetSystemTime

SpecClock == InitClock /\ [][NextClock]_vars

----------------------------------------------------------------------------
\* A program of two tasks: main() creates task A from static parameters and
\* waits for an event without a timeout, then polls it; task A creates the
\* event, sets it once and exits.

ScnMain == "t1"

ScnA == "t2"

\* the task parameters with the storage of the task given by the caller
StaticParams ==
  [fp |-> "NULL",
   tcb |-> IF backend \in {"safertos", "zephyr"} THEN TcbAddr ELSE NULL,
   stack |-> StackAddr,
   stackSize |-> StackSize]

\* main(): osCreateTask("A", taskCode, arg, &params); task A runs when the
\* call returned a valid handle
Scn_Spawn ==
  /\ kind = "event"
  /\ scn.main = "off"
  /\ \E arg \in Args, g \in Args, st \in KernelStatus :
       LET r == CreateTask(ktask, "taskCode", arg, StaticParams, st, g) IN
         /\ g = arg \/ (backend = "cmx_rtx" /\ r.ktask # ktask)
         /\ ktask' = r.ktask
         /\ scn' = [scn EXCEPT !.main = "spawned",
                               !.a = IF r.ret # taskIds.invalid THEN "ready" ELSE "nospawn",
                               !.slot = r.ret]
  /\ UNCHANGED <<backend, kind, taskIds, tcall, sched, memCall, syncVars, tickMs, obs, clk, irq, place>>

\* task A: osCreateEvent(&event)
Scn_Create ==
  /\ scn.a = "ready"
  /\ osCreateEvent
  /\ scn' = [scn EXCEPT !.a = "created"]
  /\ UNCHANGED <<tickMs, obs, clk, irq, place>>

\* task A: osSetEvent(&event), when the event was created
Scn_Set ==
  /\ scn.a = "created"
  /\ osSetEvent
  /\ scn' = [scn EXCEPT !.a = "set"]
  /\ UNCHANGED <<tickMs, obs, clk, irq, place>>

\* task A: osDeleteTask(OS_SELF_TASK_ID), after the set or after a failed create
Scn_Exit ==
  /\ kind = "event"
  /\ scn.a = "set" \/ (scn.a = "created" /\ event.state = "failed")
  /\ LET calls == DeleteTask(taskIds.self, scn.slot)
         ended == {Target(calls[i], scn.slot) : i \in 1 .. Len(calls)}
     IN ktask' = [i \in Slots |-> IF i \in ended THEN NoThread ELSE ktask[i]]
  /\ scn' = [scn EXCEPT !.a = "exited"]
  /\ UNCHANGED <<backend, kind, taskIds, tcall, sched, memCall, syncVars, tickMs, obs, clk, irq, place>>

\* main(): osWaitForEvent(&event, INFINITE_DELAY)
Scn_Wait ==
  /\ scn.main = "spawned"
  /\ osWaitForEvent_Call(ScnMain, INFINITE_DELAY)
  /\ scn' = [scn EXCEPT !.main = "waited"]
  /\ UNCHANGED <<tickMs, obs, clk, irq, place>>

\* main(): osWaitForEvent(&event, 0), when the first wait has returned
Scn_Poll ==
  /\ scn.main = "waited"
  /\ osWaitForEvent_Call(ScnMain, 0)
  /\ scn' = [scn EXCEPT !.main = "polled", !.first = loc[ScnMain].ret]
  /\ UNCHANGED <<tickMs, obs, clk, irq, place>>

\* main() calls osWaitForEvent on the object before osCreateEvent has set it
\* up (or after osCreateEvent failed): the kernel call works on a control
\* block, or an identifier, that was never initialised, and may succeed, fail
\* or never return
Scn_WaitUncreated ==
  /\ kind = "event"
  /\ event.state # "created"
  /\ pc[ScnMain] = "idle"
  /\ scn.main \in {"spawned", "waited"}
  /\ LET timeout == IF scn.main = "spawned" THEN INFINITE_DELAY ELSE 0
         l == Begin(ScnMain, "wait", timeout, WaitMode(timeout))
     IN \E out \in {"true", "false", "lost"} :
          IF out = "lost"
          THEN Stay(l, <<>>, ScnMain, "lost")
          ELSE Return(l, <<>>, ScnMain, out = "true")
  /\ scn' = [scn EXCEPT !.main = IF @ = "spawned" THEN "waited" ELSE "polled",
                        !.first = IF scn.main = "waited" THEN loc[ScnMain].ret ELSE @,
                        !.early = TRUE]
  /\ clean' = FALSE
  /\ owed' = FALSE
  /\ UNCHANGED <<backend, kind, sysVars, semaphoreTable, ksem, kmutex, objVars,
                 nSets, misuse, nAcq, allocHist, tickMs, obs, clk, irq, place>>

InitScenario ==
  /\ backend \in Backends
  /\ kind = "event"
  /\ InitObjects
  /\ taskIds \in HeaderTaskIds
  /\ ktask = [i \in Slots |-> NoThread]
  /\ tcall = NoTaskCall
  /\ sched = NoSched
  /\ memCall = [c \in Callers |-> NoMemCall]
  /\ InitExt

NextScenario ==
  \/ Scn_Spawn
  \/ Scn_Create
  \/ Scn_Set
  \/ Scn_Exit
  \/ Scn_Wait
  \/ Scn_Poll
  \/ Scn_WaitUncreated
  \/ osWaitForEvent_Drain(ScnMain) /\ UNCHANGED extVars
  \/ KernelResume(ScnMain) /\ UNCHANGED extVars

\* every task that can take a step is scheduled in the end
SpecScenario == InitScenario /\ [][NextScenario]_vars /\ WF_vars(NextScenario)

----------------------------------------------------------------------------
\* Properties

Last(r) == r[Len(r)]

IsSet(e) == e.op \in {"set", "setIsr"}

IsWait(e) == e.op = "wait"

IsPoll(e) == e.op = "wait" /\ e.timeout = 0

\* C5: as long as osReleaseMutex has only been called by the task holding the
\* mutex, at most one task is between a returned osAcquireMutex and its
\* osReleaseMutex: no second osAcquireMutex returns before the holder's release.
MutualExclusion ==
  (kind = "mutex" /\ ~misuse) => Cardinality(holding) <= 1

\* one task holds the mutex and the other one's osAcquireMutex has not returned
MutualExclusion_Witness ==
  /\ kind = "mutex"
  /\ ~misuse
  /\ \E t, u \in Tasks : holding = {t} /\ pc[u] = "blocked" /\ loc[u].op = "acquire"

\* C6: when osCreateMutex has returned TRUE the semaphore behind a CMX-RTX or
\* SafeRTOS mutex holds exactly one token (a PX5 or Zephyr mutex has no owner),
\* and the first osAcquireMutex after it returns without blocking.
MutexAvailable ==
  (kind = "mutex" /\ mutex.state = "created") =>
    /\ (nAcq = 0 /\ ~misuse /\ SemaphoreMutex) => ksem[HandleOf(mutex)].count = 1
    /\ (nAcq = 0 /\ ~misuse /\ ~SemaphoreMutex) => kmutex.owner = NoTask
    /\ nAcq = 1 => Blocked = {}

\* the first osAcquireMutex on a CMX-RTX mutex has returned
MutexAvailable_Witness ==
  /\ kind = "mutex"
  /\ backend = "cmx_rtx"
  /\ mutex.state = "created"
  /\ nAcq = 1
  /\ ~misuse
  /\ \E t \in Tasks : holding = {t} /\ pc[t] = "idle" /\ loc[t].op = "acquire"

\* C7: starting from a cleared table, the first OS_MAX_SEMAPHORES allocate calls
\* made in a row return pairwise distinct ids inside the table (so all of them),
\* and the next one returns OS_INVALID_SEMAPHORE_ID and leaves the table as it was.
AllocatorExhaustion ==
  (kind = "alloc" /\ streak.on) =>
    LET ids == streak.ids
        n == IF Len(ids) <= OS_MAX_SEMAPHORES THEN Len(ids) ELSE OS_MAX_SEMAPHORES
    IN /\ \A i \in 1 .. n : ids[i] \in Ids
       /\ \A i, j \in 1 .. n : i # j => ids[i] # ids[j]
       /\ Len(ids) = OS_MAX_SEMAPHORES + 1 =>
            /\ ids[OS_MAX_SEMAPHORES + 1] = OS_INVALID_SEMAPHORE_ID
            /\ lastCall.op = "alloc"
            /\ lastCall.before = semaphoreTable

\* the table was cleared, OS_MAX_SEMAPHORES allocate calls succeeded and one more was made
AllocatorExhaustion_Witness ==
  /\ kind = "alloc"
  /\ streak.on
  /\ Len(streak.ids) = OS_MAX_SEMAPHORES + 1
  /\ \A i \in Ids : semaphoreTable[i]

\* C8: an allocate call that follows the release of an allocated id succeeds, and
\* no allocate call ever returns an id whose slot was in use when it was called.
IdentifierReuse ==
  (kind = "alloc" /\ lastCall.op = "alloc") =>
    /\ (prevCall.op = "free" /\ prevCall.arg < OS_MAX_SEMAPHORES
          /\ prevCall.before[prevCall.arg])
         => lastCall.ret # OS_INVALID_SEMAPHORE_ID
    /\ lastCall.ret # OS_INVALID_SEMAPHORE_ID =>
         /\ lastCall.ret \in Ids
         /\ ~lastCall.before[lastCall.ret]
         /\ semaphoreTable[lastCall.ret]

\* every slot was in use, one id was released, and the next allocate call was made
IdentifierReuse_Witness ==
  /\ kind = "alloc"
  /\ lastCall.op = "alloc"
  /\ prevCall.op = "free"
  /\ prevCall.arg < OS_MAX_SEMAPHORES
  /\ \A i \in Ids : prevCall.before[i]
  /\ lastCall.ret = prevCall.arg

\* C1: on every port, with the calls made one after the other: a poll of a
\* created event that no set call preceded returns FALSE; after exactly one set
\* call the next wait (any timeout) returns TRUE and a poll right after it
\* returns FALSE.
EventEdge ==
  kind = "event" =>
    /\ (nSets = 0 /\ recent # <<>> /\ IsPoll(Last(recent))) => ~Last(recent).ret
    /\ (nSets = 1 /\ Len(recent) >= 2 /\ IsSet(recent[Len(recent) - 1])
          /\ IsWait(Last(recent)))
         => Last(recent).ret
    /\ (nSets = 1 /\ Len(recent) = 3 /\ IsSet(recent[1]) /\ IsWait(recent[2])
          /\ IsPoll(recent[3]))
         => (recent[2].ret /\ ~recent[3].ret)

\* one set, a wait without a timeout that returned TRUE, and a poll
EventEdge_Witness ==
  /\ kind = "event"
  /\ nSets = 1
  /\ Len(recent) = 3
  /\ recent[1].op = "set"
  /\ IsWait(recent[2]) /\ recent[2].timeout = INFINITE_DELAY /\ recent[2].ret
  /\ IsPoll(recent[3]) /\ ~recent[3].ret

\* C2: on every port, with the calls made one after the other: a poll that
\* directly follows osResetEvent returns FALSE, however many set calls came before.
ResetDrains ==
  (kind = "event" /\ Len(recent) >= 2 /\ recent[Len(recent) - 1].op = "reset"
     /\ IsPoll(Last(recent)))
    => ~Last(recent).ret

\* two or more set calls, the last one right before a reset, then a poll
ResetDrains_Witness ==
  /\ kind = "event"
  /\ nSets = 2
  /\ Len(recent) = 3
  /\ IsSet(recent[1])
  /\ recent[2].op = "reset"
  /\ IsPoll(recent[3])

\* C3: with the calls made one after the other, after osCreateSemaphore(sem, c)
\* and c releases, each of the next c waits returns TRUE and the wait after them,
\* with no release in between, returns FALSE.
SemaphoreCapacity ==
  (kind = "semaphore" /\ semTest.phase = "wait") =>
    /\ semTest.nWait <= semaphore.count => semTest.ret
    /\ semTest.nWait = semaphore.count + 1 => ~semTest.ret

\* C4: the count of a created semaphore never leaves the range 0 .. c, c being
\* the count given to osCreateSemaphore.
SemaphoreBound ==
  (kind = "semaphore" /\ semaphore.state = "created") =>
    /\ ksem[HandleOf(semaphore)].count >= 0
    /\ ksem[HandleOf(semaphore)].count <= semaphore.count

\* C9 (as amended): a wait that begins after a set or release which was issued
\* while no wait or reset was in progress, and before any other wait or reset
\* began, returns TRUE and does not block.
NoLostSignal ==
  \A t \in Tasks :
    (loc[t].op \in {"wait", "semwait"} /\ loc[t].mustSee) =>
      /\ pc[t] # "blocked"
      /\ pc[t] = "idle" => loc[t].ret

\* such a wait has returned while the other task is inside a call of its own
NoLostSignal_Witness ==
  \E t, u \in Tasks :
    /\ pc[t] = "idle" /\ loc[t].op = "wait" /\ loc[t].mustSee /\ loc[t].ret
    /\ pc[u] # "idle"

\* C9 (as stated): a wait that begins after a set or release, with no other wait
\* or reset begun in between, returns TRUE and does not block, also when another
\* wait was in progress at the time of the set.
NoLostSignal_AsStated ==
  \A t \in Tasks :
    (loc[t].op \in {"wait", "semwait"} /\ loc[t].owedAtCall) =>
      /\ pc[t] # "blocked"
      /\ pc[t] = "idle" => loc[t].ret

\* C10: two waits on an event that was set with no wait or reset in progress or
\* begun since, neither of them with a set issued after it began: exactly one
\* returns TRUE.
AutoClearAtomic ==
  kind = "event" =>
    \A t, u \in Tasks :
      (t # u /\ pc[t] = "idle" /\ pc[u] = "idle"
         /\ loc[t].op = "wait" /\ loc[u].op = "wait"
         /\ loc[t].noSet /\ loc[u].noSet /\ loc[t].mustSee)
        => (loc[t].ret # loc[u].ret)

\* the kernel calls that create a task
CreateCalls == {"K_Task_Create", "K_Task_Create_Stack", "xTaskCreate",
                "px5_pthread_create", "k_thread_create"}

CallsOf(fns) == {i \in 1 .. Len(tcall.calls) : tcall.calls[i].fn \in fns}

IsCreate == tcall.op = "create"

IsDelete == tcall.op = "delete"

\* the last osCreateTask call was given exactly one of params->tcb, params->stack
PartialStatic == IsCreate /\ ((tcall.params.tcb = NULL) # (tcall.params.stack = NULL))

\* C11: on SafeRTOS and Zephyr, osCreateTask called with exactly one of
\* params->tcb and params->stack non-NULL returns OS_INVALID_TASK_ID and makes
\* no kernel call that creates a thread.
PartialStaticFails ==
  (backend \in {"safertos", "zephyr"} /\ PartialStatic)
    => (tcall.ret = taskIds.invalid /\ CallsOf(CreateCalls) = {})

PartialStaticFails_Witness ==
  /\ backend \in {"safertos", "zephyr"}
  /\ PartialStatic
  /\ KernelOk(tcall.st) /\ tcall.room
  /\ tcall.ret = taskIds.invalid

\* the stack address the port hands to the kernel for params->stack
StackGiven ==
  IF backend = "cmx_rtx"
  THEN tcall.params.stack + tcall.params.stackSize - 1
  ELSE tcall.params.stack

\* C12: on every backend, osCreateTask with the storage omitted creates the
\* task with dynamically allocated storage and returns a valid handle when the
\* kernel has resources; with storage supplied the kernel is handed exactly
\* that storage and no dynamic allocation is requested.
StaticOrDynamic ==
  IsCreate =>
    /\ (tcall.params.tcb = NULL /\ tcall.params.stack = NULL
          /\ KernelOk(tcall.st) /\ tcall.room)
         => (tcall.ret # taskIds.invalid /\ ktask[tcall.ret].dynamic)
    /\ (tcall.params.stack # NULL /\ tcall.ret # taskIds.invalid)
         => /\ ktask[tcall.ret].stack = StackGiven
            /\ ktask[tcall.ret].tcb = tcall.params.tcb
            /\ ~ktask[tcall.ret].dynamic

\* C13: osDeleteTask(OS_SELF_TASK_ID) ends the calling task: by the kernel's
\* call that ends the current task on CMX-RTX and PX5, by the kernel's delete
\* call aimed at the calling task on SafeRTOS and Zephyr; with any other
\* handle it makes the delete call on that handle and no other call.
SelfDeleteRouting ==
  IsDelete =>
    /\ Len(tcall.calls) = 1
    /\ IF tcall.taskId = taskIds.self
       THEN /\ tcall.callerEnded
            /\ backend \in {"cmx_rtx", "px5"} => tcall.calls[1].fn \in ExitCurrent
            /\ backend \in {"safertos", "zephyr"} =>
                 /\ tcall.calls[1].fn \in GenericDelete
                 /\ Target(tcall.calls[1], tcall.caller) = tcall.caller
       ELSE /\ tcall.calls[1].fn \in GenericDelete
            /\ tcall.calls[1].handle = tcall.taskId

SelfDeleteRouting_Witness ==
  /\ IsDelete
  /\ tcall.taskId = taskIds.self
  /\ tcall.caller \in Slots
  /\ tcall.calls[1].fn = "k_thread_abort"
  /\ tcall.calls[1].handle = tcall.caller
  /\ ktask[tcall.caller].state = "free"

\* C13 as stated: on every backend the self-delete makes the call that ends
\* the current task and never the delete call that takes a handle.
SelfDeleteRouting_AsStated ==
  (IsDelete /\ tcall.taskId = taskIds.self)
    => (CallsOf(ExitCurrent) # {} /\ CallsOf(GenericDelete) = {})

\* C14: OS_INVALID_TASK_ID and OS_SELF_TASK_ID are distinct on every backend:
\* osDeleteTask given the handle of a failed osCreateTask never ends the
\* calling task, and a created task's handle is neither of the two values.
DistinctSentinels ==
  /\ taskIds.invalid # taskIds.self
  /\ (IsDelete /\ tcall.afterFailedCreate) => ~tcall.callerEnded
  /\ \A i \in Slots : ktask[i].state # "free" => i \notin {taskIds.invalid, taskIds.self}

\* the kernel's create step of the last CMX-RTX osCreateTask succeeded
CreateStepOk == tcall.st.create /\ tcall.room

\* C15: on CMX-RTX osCreateTask returns a handle other than OS_INVALID_TASK_ID
\* exactly when the kernel's create step and its start step both succeeded; a
\* returned handle is that of a started task; K_Task_Start is not called after
\* a failed create.
TwoStepStart ==
  (backend = "cmx_rtx" /\ IsCreate) =>
    /\ (tcall.ret # OS_INVALID_TASK_ID) <=> (CreateStepOk /\ tcall.st.start)
    /\ tcall.ret # OS_INVALID_TASK_ID => ktask[tcall.ret].state = "started"
    /\ ~CreateStepOk => CallsOf({"K_Task_Start"}) = {}
    /\ CreateStepOk => CallsOf({"K_Task_Start"}) = {2}

TwoStepStart_Witness ==
  /\ backend = "cmx_rtx"
  /\ IsCreate
  /\ CreateStepOk
  /\ ~tcall.st.start
  /\ tcall.ret = OS_INVALID_TASK_ID
  /\ CallsOf({"K_Task_Start"}) = {2}

\* C16: on every backend the created task's entry function is invoked with the
\* arg value given to osCreateTask.
ArgPassed ==
  (IsCreate /\ tcall.ret # taskIds.invalid) => ktask[tcall.ret].arg = tcall.arg

\* the last port call of c was osSuspendAllTasks or osResumeAllTasks
IsLockCall(c) == memCall[c].op \in {"suspend", "resume"}

\* C17: on every backend, osSuspendAllTasks or osResumeAllTasks called while
\* the scheduler is not running makes no kernel lock or unlock call and
\* changes no scheduler state.
NoOpBeforeStart ==
  \A c \in Callers :
    (IsLockCall(c) /\ ~memCall[c].wasStarted)
      => (memCall[c].kcalls = 0 /\ ~memCall[c].changed)

\* C18: on every backend, while a task has made more calls to
\* osSuspendAllTasks than to osResumeAllTasks the scheduler is suspended, also
\* after an osAllocMem or osFreeMem call made in between has returned.
LockNesting ==
  \A t \in Tasks : memCall[t].nest >= 1 => sched.depth >= 1

\* C19: on CMX-RTX, PX5 and Zephyr, a context is inside malloc or free only
\* while task switching is suspended, and no two are inside at the same time.
HeapBracketed ==
  backend \in {"cmx_rtx", "px5", "zephyr"} =>
    /\ \A c \in InHeap : sched.depth >= 1
    /\ Cardinality(InHeap) <= 1

\* the last port call of c was osAllocMem and it has returned
AllocReturned(c) == memCall[c].op = "alloc" /\ memCall[c].pc = "idle"

\* C20: when the allocator returns null osAllocMem returns NULL; on the
\* success and on the failure path osAllocMem calls osResumeAllTasks once
\* after its osSuspendAllTasks (on SafeRTOS, which has no allocator, it calls
\* neither), and the depth of the scheduler lock after the call is the depth
\* before it.
AllocBalanced ==
  \A c \in Callers :
    AllocReturned(c) =>
      /\ memCall[c].failed => memCall[c].ret = "NULL"
      /\ memCall[c].nSuspend = (IF backend = "safertos" THEN 0 ELSE 1)
      /\ memCall[c].nResume = memCall[c].nSuspend
      /\ memCall[c].depthAfter = memCall[c].depthBefore

AllocBalanced_Witness ==
  \E t \in Tasks :
    /\ backend = "cmx_rtx"
    /\ AllocReturned(t)
    /\ memCall[t].failed
    /\ memCall[t].ret = "NULL"
    /\ memCall[t].nest = 1
    /\ memCall[t].depthBefore = 1
    /\ sched.depth = 1

\* task t is inside the kernel wait of an osWaitForEvent / osWaitForSemaphore
\* call made with INFINITE_DELAY
InfiniteWait(t) ==
  /\ pc[t] = "blocked"
  /\ loc[t].op \in {"wait", "semwait"}
  /\ loc[t].timeout = INFINITE_DELAY

\* C21: on every backend a wait with INFINITE_DELAY returns only TRUE, and its
\* kernel wait ends only when the object has been set or released during the
\* call.
InfiniteWaitReturnsTrue ==
  [][\A t \in Tasks :
       (InfiniteWait(t) /\ pc'[t] # "blocked")
         => (~loc'[t].noSet /\ (pc'[t] = "idle" => loc'[t].ret))]_vars

\* task t is inside the kernel wait of an osWaitForEvent / osWaitForSemaphore call
InKernelWait(t) == pc[t] = "blocked" /\ loc[t].op \in {"wait", "semwait"}

\* C22: on every backend a wait with a timeout t, 0 < t < INFINITE_DELAY, is a
\* kernel wait that ends when its tick count has elapsed, whatever tick count
\* OS_MS_TO_SYSTICKS(t) yields, and a wait with timeout 0 does not block.
BoundedWait ==
  \A t \in Tasks :
    InKernelWait(t) =>
      /\ loc[t].timeout # 0
      /\ loc[t].timeout # INFINITE_DELAY => loc[t].mode = "timed"

ScnObserved ==
  /\ scn.main = "polled"
  /\ pc[ScnMain] = "idle"
  /\ scn.first
  /\ ~loc[ScnMain].ret

\* task A was created, its osCreateEvent did not fail, and main() has not
\* waited on the event before it was created
ScnInOrder == scn.a # "nospawn" /\ event.state # "failed" /\ ~scn.early

ObjectOf ==
  CASE kind = "event" -> [state |-> event.state, id |-> event.id]
    [] kind = "semaphore" -> [state |-> semaphore.state, id |-> semaphore.id]
    [] OTHER -> [state |-> mutex.state, id |-> mutex.id]

TableFull == \A i \in Ids : semaphoreTable[i]

\* C25: on CMX-RTX the delete call of a created event, semaphore or mutex marks
\* the slot of the object's id free and changes no other slot; the next
\* osAllocateSemaphoreId succeeds, and returns this very id when every other
\* slot is in use.
DeleteReleasesSlot ==
  [][(backend = "cmx_rtx" /\ ObjectOf.state = "created" /\ ObjectOf'.state = "none")
       => /\ ObjectOf.id \in Ids
          /\ semaphoreTable' = [semaphoreTable EXCEPT ![ObjectOf.id] = FALSE]
          /\ AllocateSemaphoreId(semaphoreTable').id # OS_INVALID_SEMAPHORE_ID
          /\ TableFull => AllocateSemaphoreId(semaphoreTable').id = ObjectOf.id]_vars

\* a CMX-RTX object was created when other identifiers were in use, and deleted
DeleteReleasesSlot_Witness ==
  /\ backend = "cmx_rtx"
  /\ kind \in {"event", "semaphore", "mutex"}
  /\ ObjectOf.state = "none"
  /\ ObjectOf.id \in Ids
  /\ ksem[ObjectOf.id].created
  /\ ~semaphoreTable[ObjectOf.id]
  /\ \A i \in Ids \ {ObjectOf.id} : semaphoreTable[i]

\* C26: on CMX-RTX a create call made when every slot of the table is in use
\* returns FALSE, leaves OS_INVALID_SEMAPHORE_ID in the object, and changes
\* neither the table nor any kernel semaphore.
CreateFailsWhenFull ==
  [][(backend = "cmx_rtx" /\ TableFull /\ ObjectOf.state = "none" /\ ObjectOf'.state # "none")
       => /\ ObjectOf'.state = "failed"
          /\ ObjectOf'.id = OS_INVALID_SEMAPHORE_ID
          /\ ksem' = ksem
          /\ semaphoreTable' = semaphoreTable]_vars

\* the create call of a CMX-RTX object has failed for want of an identifier
CreateFailsWhenFull_Witness ==
  /\ backend = "cmx_rtx"
  /\ kind \in {"event", "semaphore", "mutex"}
  /\ TableFull
  /\ ObjectOf.state = "failed"
  /\ ObjectOf.id = OS_INVALID_SEMAPHORE_ID

\* C27: of two calls of osGetSystemTime made one after the other, the second
\* returns a value greater than or equal to the first, whatever the value of
\* the kernel's counter.
SystemTimeMonotonic ==
  (kind = "clock" /\ clk.reads = 2) => SystimeLeq(clk.prev, clk.last)

WaitDrainsAll ==
  kind = "event" =>
    /\ (Len(recent) >= 2 /\ IsSet(recent[Len(recent) - 1]) /\ IsWait(Last(recent)))
         => (Last(recent).ret /\ ksem[HandleOf(event)].count = 0)
    /\ (Len(recent) = 3 /\ IsSet(recent[1]) /\ IsWait(recent[2]) /\ IsPoll(recent[3]))
         => (recent[2].ret /\ ~recent[3].ret)

\* two set calls in a row on an event that keeps count of them, then a wait
\* that returned TRUE
WaitDrainsAll_Witness ==
  /\ kind = "event"
  /\ DrainLoop
  /\ Len(recent) = 3
  /\ recent[1].op = "set"
  /\ recent[2].op = "set"
  /\ IsWait(recent[3]) /\ recent[3].ret
  /\ ksem[HandleOf(event)].count = 0

\* C30: on every port, of the polls made in a row right after
\* osCreateSemaphore(sem, c) returned TRUE, the first c return TRUE and the
\* one after them returns FALSE.
InitialCount ==
  (kind = "semaphore" /\ obs.op = "poll") =>
    /\ obs.n <= semaphore.count => obs.ret
    /\ obs.n = semaphore.count + 1 => ~obs.ret

\* a semaphore of capacity MaxCap was created and polled MaxCap + 1 times
InitialCount_Witness ==
  /\ kind = "semaphore"
  /\ obs.op = "poll"
  /\ semaphore.count = MaxCap
  /\ obs.n = MaxCap + 1
  /\ ~obs.ret

\* task t is between the __disable_irq() and the __enable_irq() of an
\* allocator call
InWindow(t) == irq.call[t].pc \in {"test", "mark", "clear", "enable"}

\* C31: with tasks preempting each other wherever interrupts are enabled, no
\* identifier is returned by two allocate calls unless it was marked free in
\* between, and no two tasks are inside the interrupts-disabled part of an
\* allocator call at the same time.
ConcurrentAllocation ==
  kind = "alloc" =>
    /\ \A i \in Ids : irq.out[i] <= 1
    /\ \A t, u \in Tasks : (InWindow(t) /\ InWindow(u)) => t = u
    /\ \A t \in Tasks : (irq.call[t].pc \in {"test", "mark", "clear"}) => irq.running = t

\* both tasks have allocated an identifier, one of them while the other was
\* inside its own call
ConcurrentAllocation_Witness ==
  /\ kind = "alloc"
  /\ \E t, u \in Tasks :
       /\ t # u
       /\ irq.call[t].op = "alloc" /\ irq.call[t].pc = "idle"
       /\ irq.call[t].id # OS_INVALID_SEMAPHORE_ID
       /\ irq.call[u].op = "alloc" /\ irq.call[u].pc = "return"
       /\ irq.call[u].id # OS_INVALID_SEMAPHORE_ID
       /\ irq.out[irq.call[t].id] = 1

\* a call of the allocator that has returned to task t
Returned(t) == irq.call[t].op # "none" /\ irq.call[t].pc = "idle"

\* C36: after osAllocateSemaphoreId or osFreeSemaphoreId has returned,
\* interrupts are enabled if and only if they were enabled when the function
\* was called; a call made with interrupts disabled returns with them disabled.
InterruptStatePreserved ==
  kind = "alloc" =>
    \A t \in Tasks : Returned(t) => (irq.call[t].exit <=> irq.call[t].entry)

\* C34: osFreeSemaphoreId with an identifier outside the table, 255 included,
\* is a single step that returns at once: it changes no slot of the table,
\* leaves the interrupt state alone and does not enter the critical section.
FreeOutOfRangeNoOp ==
  [][\A t \in Tasks :
       (/\ irq'.call[t] # irq.call[t]
        /\ irq'.call[t].op = "free"
        /\ irq'.call[t].arg >= OS_MAX_SEMAPHORES)
       => /\ semaphoreTable' = semaphoreTable
          /\ irq'.enabled = irq.enabled
          /\ irq'.call[t].pc = "idle"
          /\ ~irq'.call[t].entered
          /\ ~irq'.call[t].wrote]_vars

\* osFreeSemaphoreId(OS_INVALID_SEMAPHORE_ID) has returned while identifiers
\* were in use, as when an object whose creation found the table full is deleted
FreeOutOfRangeNoOp_Witness ==
  /\ kind = "alloc"
  /\ \A i \in Ids : semaphoreTable[i]
  /\ \E t \in Tasks :
       /\ Returned(t)
       /\ irq.call[t].op = "free"
       /\ irq.call[t].arg = OS_INVALID_SEMAPHORE_ID
       /\ ~irq.call[t].entered

\* the free slots of a table
FreeSlots(table) == {i \in Ids : table[i] = FALSE}

\* C33: called on a table with at least one free slot, osAllocateSemaphoreId
\* returns the lowest index of a free slot, marks that slot in use and changes
\* no other slot.
LowestFreeSlot ==
  (kind = "alloc" /\ lastCall.op = "alloc" /\ FreeSlots(lastCall.before) # {}) =>
    /\ lastCall.ret \in FreeSlots(lastCall.before)
    /\ \A i \in FreeSlots(lastCall.before) : lastCall.ret <= i
    /\ \A i \in Ids : semaphoreTable[i] = (lastCall.before[i] \/ i = lastCall.ret)

\* an allocate call found slot 0 in use and two free slots above it
LowestFreeSlot_Witness ==
  /\ kind = "alloc"
  /\ lastCall.op = "alloc"
  /\ lastCall.before[0]
  /\ FreeSlots(lastCall.before) = {1, 2}
  /\ lastCall.ret = 1

\* C35: a CMX-RTX create call that returns FALSE, for want of an identifier
\* or because K_Semaphore_Create or the mutex's K_Semaphore_Post failed,
\* leaves the identifier table as it was before the call.
FailedCreateKeepsTable ==
  [][(backend = "cmx_rtx" /\ ObjectOf.state = "none" /\ ObjectOf'.state = "failed")
       => semaphoreTable' = semaphoreTable]_vars

\* the last osCreateTask call saw one of its attribute calls fail: the calls
\* are made in order up to the first failure, px5_pthread_attr_setstackaddr
\* only for a non-NULL params->stack
AttributeFailed ==
  /\ IsCreate
  /\ \/ ~tcall.st.init
     \/ tcall.params.stack # NULL /\ ~tcall.st.addr
     \/ ~tcall.st.size
     \/ ~tcall.st.prio

\* C37: on PX5, when pthread_attr_init, px5_pthread_attr_setstackaddr,
\* px5_pthread_attr_setstacksize or px5_pthread_attr_setpriority fails,
\* osCreateTask returns OS_INVALID_TASK_ID and does not call px5_pthread_create.
AttributeErrorFailsClosed ==
  (backend = "px5" /\ AttributeFailed)
    => (tcall.ret = taskIds.invalid /\ CallsOf({"px5_pthread_create"}) = {})

\* in this step the osWaitForEvent or osWaitForSemaphore call of task t returns val:
\* at once from its first kernel call, or from the kernel wait or the loop it was in
WaitReturns(t, val) ==
  /\ pc'[t] = "idle"
  /\ loc'[t].op \in {"wait", "semwait"}
  /\ loc'[t].ret = val
  /\ \/ pc[t] \in {"blocked", "drain"}
     \/ \E timeout \in Timeouts : osWaitForEvent_Call(t, timeout)
     \/ \E timeout \in Timeouts : osWaitForSemaphore_Call(t, timeout)

\* the tokens this step's osReleaseSemaphore adds: none when the step is no
\* release, or when the semaphore is at its limit
Released ==
  IF osReleaseSemaphore /\ Give(ksem[HandleOf(semaphore)]) # ksem[HandleOf(semaphore)]
  THEN 1 ELSE 0

\* C39: the step in which osWaitForEvent or osWaitForSemaphore returns FALSE
\* leaves the kernel object as the wait's kernel call found it, and the wait
\* never reached the loop that follows a successful take; the step in which
\* osWaitForSemaphore returns TRUE takes exactly one token: the count goes down
\* by one, or stays when the token came from the release that resumed the task.
FailedWaitChangesNothing ==
  [][\A t \in Tasks :
       /\ WaitReturns(t, FALSE) => (ksem' = ksem /\ pc[t] # "drain")
       /\ (kind = "semaphore" /\ WaitReturns(t, TRUE))
            => ksem'[HandleOf(semaphore)].count
                 = ksem[HandleOf(semaphore)].count + Released - 1]_vars

\* of a semaphore created with two tokens one is left: a wait of one task
\* returned TRUE and a wait of the other returned FALSE
FailedWaitChangesNothing_Witness ==
  /\ kind = "semaphore"
  /\ semaphore.state = "created"
  /\ semaphore.count = 2
  /\ ksem[HandleOf(semaphore)].count = 1
  /\ \E t, u \in Tasks :
       /\ pc[t] = "idle" /\ loc[t].op = "semwait" /\ loc[t].ret
       /\ pc[u] = "idle" /\ loc[u].op = "semwait" /\ ~loc[u].ret

\* C40: the pointer p = b + (Q - b mod Q) that the SafeRTOS create functions
\* hand to the kernel for a buffer of 2 * Q bytes at address b is a multiple of
\* Q, lies above b, and leaves Q bytes up to the end of the buffer, all in
\* 32-bit unsigned arithmetic.
PlacementInsideBuffer ==
  place.op # "none" =>
    /\ Mod32(place.p, place.q) = 0
    /\ Lt32(place.b, place.p)
    /\ ~Lt32(Add32(place.b, 2 * place.q), Add32(place.p, place.q))

\* a buffer that starts on the last byte below a multiple of 65536 and is not
\* aligned: the addition carries into the upper half of the pointer
PlacementInsideBuffer_Witness ==
  /\ place.op = "osCreateSemaphore"
  /\ place.q = 4
  /\ place.b[1] = Limb - 1
  /\ place.p = <<0, place.b[2] + 1>>

\* C32: on CMX-RTX and PX5, osResetEvent called on an event holding n tokens,
\* with m sets issued while it runs, makes at most n + m + 1 non-blocking gets
\* (a call still in its loop has made at most n + m, so the next failing get
\* ends it), and is never in a blocking kernel wait.
ResetTerminates ==
  (kind = "event" /\ DrainLoop) =>
    \A t \in Tasks :
      LET r == obs.reset[t] IN
        /\ r.tries <= r.n + r.m + 1
        /\ r.on => (pc[t] = "reset" /\ r.tries <= r.n + r.m)
        /\ loc[t].op = "reset" => (pc[t] # "blocked" /\ loc[t].mode # "forever")

\* an osResetEvent call has returned after two sets were issued during it and
\* it took a token that was there before and both new ones
ResetTerminates_Witness ==
  /\ kind = "event" /\ DrainLoop
  /\ \E t \in Tasks :
       /\ pc[t] = "idle" /\ loc[t].op = "reset"
       /\ ~obs.reset[t].on
       /\ obs.reset[t].n >= 1
       /\ obs.reset[t].m = 2
       /\ obs.reset[t].tries = obs.reset[t].n + 3

\* a wait has returned TRUE and left the event nonsignaled
WokenAndCleared ==
  \E t \in Tasks :
    /\ pc[t] = "idle"
    /\ loc[t].op = "wait"
    /\ loc[t].ret
    /\ ksem[HandleOf(event)].count = 0

\* C38: on every port, when the event is set once, by osSetEvent or by
\* osSetEventFromIsr, while a single task is blocked in
\* osWaitForEvent(event, INFINITE_DELAY), that wait eventually returns TRUE and
\* the event is nonsignaled when it returns, provided the scheduler runs the
\* task once it is ready.
SetWakesWaiter == (obs.op = "set" /\ obs.woke) ~> WokenAndCleared

\* the set found a task blocked without a timeout, and that task's wait has
\* returned TRUE
SetWakesWaiter_Witness ==
  /\ obs.op = "set"
  /\ obs.woke
  /\ WokenAndCleared

============================================================================
